---- MODULE Spec2Model ----
(***************************************************************************)
(* Constraint enforcement and supervision engine of grokflow-cli           *)
(* (src/grokflow_constraints.py): the ConstraintManager rule store with    *)
(* its keyword index and its two matching entry points, and the            *)
(* ConstraintSupervisor analytics.                                         *)
(*                                                                         *)
(* Strings are sequences of one-character strings, so that lower-casing,   *)
(* substring search, tokenisation and pattern search are computed and not  *)
(* assumed.                                                                *)
(***************************************************************************)
EXTENDS Integers, Sequences, FiniteSets, TLC

(***************************************************************************)
(* Python str operations used by the rule store.                           *)
(***************************************************************************)

\* the ASCII letters
UpperLetters ==
    << "A", "B", "C", "D", "E", "F", "G", "H", "I", "J", "K", "L", "M",
       "N", "O", "P", "Q", "R", "S", "T", "U", "V", "W", "X", "Y", "Z" >>

LowerLetters ==
    << "a", "b", "c", "d", "e", "f", "g", "h", "i", "j", "k", "l", "m",
       "n", "o", "p", "q", "r", "s", "t", "u", "v", "w", "x", "y", "z" >>

\* str.lower() on one character
LowerChar(c) ==
    IF \E i \in 1..Len(UpperLetters) : UpperLetters[i] = c
    THEN LowerLetters[CHOOSE i \in 1..Len(UpperLetters) : UpperLetters[i] = c]
    ELSE c

\* str.lower()
Lower(s) == [i \in 1..Len(s) |-> LowerChar(s[i])]

\* str.isspace() on one character
IsSpace(c) == c \in {" ", "\t", "\n"}

\* str.strip(): drop leading and trailing whitespace
RECURSIVE LStrip(_)
LStrip(s) == IF s # <<>> /\ IsSpace(Head(s)) THEN LStrip(Tail(s)) ELSE s

RECURSIVE RStrip(_)
RStrip(s) ==
    IF s # <<>> /\ IsSpace(s[Len(s)]) THEN RStrip(SubSeq(s, 1, Len(s) - 1)) ELSE s

Strip(s) == RStrip(LStrip(s))

\* does s carry sub at position i (1-based)?
HasAt(s, sub, i) ==
    /\ i + Len(sub) - 1 <= Len(s)
    /\ SubSeq(s, i, i + Len(sub) - 1) = sub

\* Python "sub in s"
Contains(s, sub) == \E i \in 1..(Len(s) + 1) : HasAt(s, sub, i)

\* str.replace(old, new): left to right, non-overlapping (old is non-empty)
RECURSIVE Replace(_, _, _)
Replace(s, old, new) ==
    IF s = <<>> THEN <<>>
    ELSE IF HasAt(s, old, 1)
         THEN new \o Replace(SubSeq(s, Len(old) + 1, Len(s)), old, new)
         ELSE <<Head(s)>> \o Replace(Tail(s), old, new)

\* str.split(sep)[0]: the part before the first separator character
RECURSIVE FirstPart(_, _)
FirstPart(s, sep) ==
    IF s = <<>> \/ Head(s) = sep THEN <<>> ELSE <<Head(s)>> \o FirstPart(Tail(s), sep)

\* str.split(): the set of maximal runs of non-whitespace characters
SplitWords(s) ==
    { SubSeq(s, i, j) : <<i, j>> \in
        { p \in (1..Len(s)) \X (1..Len(s)) :
            /\ p[1] <= p[2]
            /\ \A k \in p[1]..p[2] : ~IsSpace(s[k])
            /\ (p[1] = 1 \/ IsSpace(s[p[1] - 1]))
            /\ (p[2] = Len(s) \/ IsSpace(s[p[2] + 1])) } }

\* str.isalnum() on one character
IsAlnumChar(c) ==
    \/ \E i \in 1..Len(UpperLetters) : c \in {UpperLetters[i], LowerLetters[i]}
    \/ c \in {"0", "1", "2", "3", "4", "5", "6", "7", "8", "9"}

\* str.isalnum(): non-empty and every character alphanumeric
IsAlnum(s) == s # <<>> /\ \A i \in 1..Len(s) : IsAlnumChar(s[i])

(***************************************************************************)
(* Python re, for patterns built from literal characters, ".", the         *)
(* quantifiers "*" and "+", alternation "|" and parentheses.               *)
(***************************************************************************)

\* nesting depth of parentheses after the first n characters of p
RECURSIVE ParenDepth(_, _)
ParenDepth(p, n) ==
    IF n = 0 THEN 0
    ELSE ParenDepth(p, n - 1)
         + (IF p[n] = "(" THEN 1 ELSE IF p[n] = ")" THEN -1 ELSE 0)

\* re.compile(p) succeeds: parentheses balance and no quantifier lacks an
\* operand; otherwise it raises re.error
RegexCompiles(p) ==
    /\ \A n \in 0..Len(p) : ParenDepth(p, n) >= 0
    /\ ParenDepth(p, Len(p)) = 0
    /\ \A i \in 1..Len(p) :
          p[i] \in {"*", "+"} => (i > 1 /\ p[i - 1] \notin {"|", "(", "*", "+"})

\* one pattern atom against one text character, under re.IGNORECASE
AtomMatches(a, c) == IF a = "." THEN c # "\n" ELSE LowerChar(a) = LowerChar(c)

\* does the branch alt, from its k-th character on, match t starting at j?
RECURSIVE MatchAt(_, _, _, _)
MatchAt(alt, k, t, j) ==
    IF k > Len(alt) THEN TRUE
    ELSE IF k < Len(alt) /\ alt[k + 1] \in {"*", "+"}
         THEN \E n \in (IF alt[k + 1] = "+" THEN 1 ELSE 0)..(Len(t) - j + 1) :
                 /\ \A m \in j..(j + n - 1) : AtomMatches(alt[k], t[m])
                 /\ MatchAt(alt, k + 2, t, j + n)
         ELSE /\ j <= Len(t)
              /\ AtomMatches(alt[k], t[j])
              /\ MatchAt(alt, k + 1, t, j + 1)

\* the branches of an alternation
RECURSIVE Branches(_)
Branches(p) ==
    LET first == FirstPart(p, "|")
    IN  IF Len(first) = Len(p) THEN {first}
        ELSE {first} \cup Branches(SubSeq(p, Len(first) + 2, Len(p)))

\* regex.search(t) of a compiled, group-free pattern: some branch matches at
\* some position
RegexSearch(p, t) ==
    \E alt \in Branches(p) : \E j \in 1..(Len(t) + 1) : MatchAt(alt, 1, t, j)

(***************************************************************************)
(* Inputs: the strings, rule shapes, queries and contexts the operations   *)
(* are called with.                                                        *)
(***************************************************************************)

KwMock == <<"m", "o", "c", "k">>
KwDemo == <<"d", "e", "m", "o">>
\* a keyword as typed, to be normalised by lower().strip()
KwBuildRaw == <<" ", "B", "u", "i", "l", "d", " ">>

PatMock == <<"m", "o", "c", "k", ".", "*">>
PatDemo == <<"d", "e", "m", "o", ".", "*">>
\* not a valid regular expression: re.compile raises re.error
PatBad == <<"a", "(">>

\* "Create mock data"
QCreateMock ==
    <<"C", "r", "e", "a", "t", "e", " ", "m", "o", "c", "k", " ", "d", "a", "t", "a">>
\* "Build a mockAPI now"
QBuildMockApi ==
    <<"B", "u", "i", "l", "d", " ", "a", " ", "m", "o", "c", "k", "A", "P", "I", " ", "n", "o", "w">>
\* "Build a( call"
QBuildBad ==
    <<"B", "u", "i", "l", "d", " ", "a", "(", " ", "c", "a", "l", "l">>
\* "Demo, mock."
QDemoMock ==
    <<"D", "e", "m", "o", ",", " ", "m", "o", "c", "k", ".">>

Queries == {QCreateMock, QBuildMockApi, QBuildBad, QDemoMock}

\* A Python dict is the set of its <<key, value>> items (keys are unique).
DictKeys(d) == { item[1] : item \in d }

\* d[k], for k a key of d
DictGet(d, k) == (CHOOSE item \in d : item[1] = k)[2]

\* context dictionaries passed to check_constraints_v2 ({} is None / {})
Contexts ==
    { {},
      {<<"query_type", "chat">>},
      {<<"query_type", "generate">>, <<"file_type", "js">>} }

\* arguments of add_constraint
LegacyInputs ==
    { [keywords |-> <<KwMock, KwDemo>>, action |-> "warn"],
      [keywords |-> <<KwBuildRaw>>, action |-> "block"] }

NoFilters == {}

\* arguments of add_constraint_v2; "XOR" is no trigger_logic and "delete"
\* no enforcement_action the documentation names
AdvancedInputs ==
    { [patterns |-> <<PatMock, PatDemo>>, keywords |-> <<>>, logic |-> "OR",
       filters |-> NoFilters, action |-> "block"],
      [patterns |-> <<PatBad>>, keywords |-> <<>>, logic |-> "OR",
       filters |-> NoFilters, action |-> "delete"],
      [patterns |-> <<>>, keywords |-> <<KwMock, KwDemo>>, logic |-> "AND",
       filters |-> NoFilters, action |-> "warn"],
      [patterns |-> <<PatMock>>, keywords |-> <<KwDemo>>, logic |-> "NOT",
       filters |-> NoFilters, action |-> "warn"],
      [patterns |-> <<>>, keywords |-> <<KwMock>>, logic |-> "OR",
       filters |-> {<<"query_type", {"generate"}>>}, action |-> "block"],
      [patterns |-> <<>>, keywords |-> <<KwMock>>, logic |-> "XOR",
       filters |-> {<<"query_type", {"generate"}>>, <<"file_type", {"py"}>>},
       action |-> "require_action"] }
    \cup
    { [patterns |-> <<>>, keywords |-> <<>>, logic |-> l,
       filters |-> NoFilters, action |-> "warn"] : l \in {"OR", "AND", "NOT"} }

\* the values of str(uuid.uuid4())[:8], in the order they are generated
Ids ==
    << <<"a", "b", "c", "d", "1", "1", "1", "1">>,
       <<"a", "b", "c", "d", "2", "2", "2", "2">>,
       <<"e", "f", "0", "1", "3", "3", "3", "3">>,
       <<"e", "f", "0", "1", "4", "4", "4", "4">> >>

\* id arguments of remove / disable / enable: too short, a shared prefix,
\* a full id
IdArgs ==
    { <<"a", "b", "c">>,
      <<"a", "b", "c", "d">>,
      <<"a", "b", "c", "d", "2", "2", "2", "2">> }

\* number of matching calls explored (the clock the timestamps are read from)
MaxClock == 1

\* number of rules added in all
MaxRules == 2

\* number of failing saves explored
MaxIoErrors == 1

(***************************************************************************)
(* The string computations of the rule store, and their values on the      *)
(* inputs above (each table holds the operator's value for every argument  *)
(* the operations can pass it).                                            *)
(***************************************************************************)

Range(f) == { f[i] : i \in DOMAIN f }

\* [kw.lower().strip() for kw in trigger_keywords]
NormalizeKeywords(kws) == [ i \in 1..Len(kws) |-> Strip(Lower(kws[i])) ]

\* the keywords and patterns stored rules can carry
StoredKeywords ==
    UNION { Range(NormalizeKeywords(in.keywords)) : in \in LegacyInputs }
    \cup UNION { Range(NormalizeKeywords(in.keywords)) : in \in AdvancedInputs }

StoredPatterns == UNION { Range(in.patterns) : in \in AdvancedInputs }

\* "keyword in query_lower", with query_lower = query.lower()
KeywordInQuery(query, keyword) == Contains(Lower(query), keyword)

KeywordInQueryTable ==
    [ q \in Queries |-> [ k \in StoredKeywords |-> KeywordInQuery(q, k) ] ]

\* a variant of _check_regex_pattern without the literal fallback of the
\* "except re.error" branch: an invalid pattern is never true
check_regex_pattern_NoFallback(query, pattern) ==
    IF RegexCompiles(pattern)
    THEN RegexSearch(pattern, query)
    ELSE FALSE

\* _check_regex_pattern
check_regex_pattern(query, pattern) ==
    IF RegexCompiles(pattern)
    THEN RegexSearch(pattern, query)
    ELSE Contains(Lower(query), Lower(pattern))

RegexPatternTable ==
    [ q \in Queries |-> [ p \in StoredPatterns |-> check_regex_pattern(q, p) ] ]

\* _extract_keyword_from_pattern; None is the empty string, which the
\* caller treats alike ("if simple_keyword and ...")
extract_keyword_from_pattern(pattern) ==
    LET c1 == Replace(Replace(pattern, <<".", "*">>, <<>>), <<".", "+">>, <<>>)
        c2 == Replace(Replace(c1, <<"^">>, <<>>), <<"$">>, <<>>)
        c3 == Replace(Replace(c2, <<"\\", "b">>, <<>>), <<"\\", "s", "*">>, <<>>)
        keyword == Strip(FirstPart(c3, "|"))
    IN  IF /\ keyword # <<>>
           /\ Len(keyword) >= 3
           /\ IsAlnum(Replace(keyword, <<"_">>, <<>>))
        THEN Lower(keyword)
        ELSE <<>>

ExtractedKeywordTable ==
    [ p \in StoredPatterns |-> extract_keyword_from_pattern(p) ]

\* words = query_lower.replace(',', ' ').replace('.', ' ').split()
QueryWords(query) ==
    SplitWords(Replace(Replace(Lower(query), <<",">>, <<" ">>), <<".">>, <<" ">>))

QueryWordsTable == [ q \in Queries |-> QueryWords(q) ]

(***************************************************************************)
(* ConstraintManager: state.                                               *)
(***************************************************************************)
VARIABLES
    constraints,       \* self.constraints: the in-memory list of rules
    keyword_index,     \* self.keyword_index: keyword -> ids
    constraints_file,  \* constraints.json: [exists, data]
    clock,             \* the time datetime.now() is read from
    call,              \* the last public call: [op, query, context]
    candidate_ids,     \* candidate_ids of the last check_constraints_v2
    checked,           \* positions of constraints_to_check in that call
    triggered,         \* positions of the rules the last matching call returned
    uuids,             \* number of ids generated so far
    io_errors          \* number of saves that failed so far

store_vars ==
    <<constraints, keyword_index, constraints_file, clock, call,
      candidate_ids, checked, triggered, uuids, io_errors>>

\* the state of the ConstraintSupervisor built over the same directory
VARIABLES
    analytics,         \* self.analytics["constraints"]: id -> Analytics Record
    analytics_file,    \* constraint_analytics.json: [exists, data]
    health,            \* what the last analyze_constraint_health returned
    drift,             \* what the last direct detect_drift call returned
    call_log           \* the record_trigger calls of the history scenario

sup_vars == <<analytics, analytics_file, health, drift, call_log>>

\* the files of the storage directory as the operating system keeps them,
\* and the processes that write and read them
VARIABLES
    fs_inodes,         \* the files: each a sequence of the chunks written
    fs_dir,            \* the directory: path -> file (NoInode: no such path)
    saver,             \* the process inside _save_constraints / _save_analytics
    loaders            \* the processes inside _load_constraints / _load_analytics

\* two processes that save the same store at the same time
VARIABLE
    writers            \* each: [pc, inode, offset, failed] of its open file

fs_vars == <<fs_inodes, fs_dir, saver, loaders, writers>>

\* the durable files as another program may leave them, and the objects
\* constructed over them
VARIABLES
    disk,              \* constraints.json and constraint_analytics.json
    manager,           \* a ConstraintManager: [built, constraints]
    supervisor,        \* a ConstraintSupervisor: [built, doc]
    op_result          \* the last call: [op, error, count]; error "none"
                       \* when the call returned

load_vars == <<disk, manager, supervisor, op_result>>

\* the supervisor's own rule store, and what its reports returned
VARIABLES
    sup_manager,       \* self.manager.constraints of the supervisor
    suggestions,       \* what the last suggest_improvements returned
    dashboard          \* what the last get_dashboard_data returned

advice_vars == <<sup_manager, suggestions, dashboard>>

aux_vars == <<fs_vars, load_vars, advice_vars>>

\* the outcomes of _save_constraints: success; an I/O error before the
\* rename (mkdir, open, dump, replace); an error of chmod after the rename
SaveOutcomes == {"ok", "write_failed", "chmod_failed"}

\* last_triggered = None
NoTimestamp == 0

Positions(cs) == 1..Len(cs)

(***************************************************************************)
(* Keyword index.                                                          *)
(***************************************************************************)

\* the keys one rule contributes to the index
IndexKeys(c) ==
    { c.trigger_keywords[i] : i \in 1..Len(c.trigger_keywords) }
    \cup
    { ExtractedKeywordTable[c.trigger_patterns[i]] :
        i \in { j \in 1..Len(c.trigger_patterns) :
                  LET k == ExtractedKeywordTable[c.trigger_patterns[j]]
                  IN  k # <<>> /\ Len(k) >= 3 } }

\* _rebuild_keyword_index
rebuild_keyword_index(cs) ==
    LET indexed == { i \in Positions(cs) : cs[i].constraint_id # <<>> }
        keys == UNION { IndexKeys(cs[i]) : i \in indexed }
    IN  [ k \in keys |->
            { cs[i].constraint_id : i \in { j \in indexed : k \in IndexKeys(cs[j]) } } ]

\* _save_constraints, of the new in-memory list cs
save_constraints(cs, outcome) ==
    /\ outcome # "ok" => io_errors < MaxIoErrors
    /\ io_errors' = IF outcome = "ok" THEN io_errors ELSE io_errors + 1
    /\ constraints_file' =
           IF outcome = "write_failed" THEN constraints_file
           ELSE [exists |-> TRUE, data |-> cs]
    /\ keyword_index' =
           IF outcome = "ok" THEN rebuild_keyword_index(cs) ELSE keyword_index

(***************************************************************************)
(* Matching.                                                               *)
(***************************************************************************)

\* _get_candidate_constraint_ids, over the index idx
get_candidate_constraint_ids(idx, query) ==
    UNION { idx[w] : w \in QueryWordsTable[query] \cap DOMAIN idx }

\* _check_keywords_phase1
check_keywords_phase1(query, c) ==
    \E i \in 1..Len(c.trigger_keywords) :
        KeywordInQueryTable[query][c.trigger_keywords[i]]

\* all_matches = pattern_matches + keyword_matches
AllMatches(query, c) ==
    [ i \in 1..Len(c.trigger_patterns) |->
        RegexPatternTable[query][c.trigger_patterns[i]] ]
    \o
    [ i \in 1..Len(c.trigger_keywords) |->
        KeywordInQueryTable[query][c.trigger_keywords[i]] ]

AnyTrue(bs) == \E i \in 1..Len(bs) : bs[i]
AllTrue(bs) == \A i \in 1..Len(bs) : bs[i]

\* a variant of the combination in which AND is read as OR
ApplyLogic_AndAsOr(logic, all_matches) ==
    IF all_matches = <<>> THEN FALSE
    ELSE CASE logic = "NOT" -> ~AnyTrue(all_matches)
           [] OTHER -> AnyTrue(all_matches)

\* the combination of the predicate outcomes by trigger_logic
ApplyLogic(logic, all_matches) ==
    IF all_matches = <<>> THEN FALSE
    ELSE CASE logic = "OR" -> AnyTrue(all_matches)
           [] logic = "AND" -> AllTrue(all_matches)
           [] logic = "NOT" -> ~AnyTrue(all_matches)
           [] OTHER -> AnyTrue(all_matches)

\* _check_patterns_phase2
check_patterns_phase2(query, c) == ApplyLogic(c.trigger_logic, AllMatches(query, c))

\* one filter key of _check_context_filters
FilterKeyPasses(context, filters, key) ==
    key \in DictKeys(filters) =>
        /\ key \in DictKeys(context)
        /\ DictGet(context, key) \in DictGet(filters, key)

\* the filter keys _check_context_filters looks at
CheckedFilterKeys == {"query_type", "vibe_mode"}

\* _check_context_filters
check_context_filters(context, filters) ==
    \/ filters = {}
    \/ \A key \in CheckedFilterKeys : FilterKeyPasses(context, filters, key)

\* a variant of the loop body without the "if not constraint.get('enabled')"
\* skip
MatchesAdvanced_IgnoringEnabled(query, context, c) ==
    /\ (c.version = 2 => check_context_filters(context, c.context_filters))
    /\ IF c.version = 1 THEN check_keywords_phase1(query, c)
       ELSE IF c.version = 2 THEN check_patterns_phase2(query, c)
       ELSE FALSE

\* the body of the loop of check_constraints_v2 for one rule: is it matched?
MatchesAdvanced(query, context, c) ==
    /\ c.enabled
    /\ (c.version = 2 => check_context_filters(context, c.context_filters))
    /\ IF c.version = 1 THEN check_keywords_phase1(query, c)
       ELSE IF c.version = 2 THEN check_patterns_phase2(query, c)
       ELSE FALSE

\* the body of the loop of check_constraints for one rule
MatchesLegacy(query, c) ==
    /\ c.enabled
    /\ check_keywords_phase1(query, c)

\* constraint_map: id -> the rule the dict comprehension keeps for it
ConstraintMap(cs) ==
    [ cid \in { cs[i].constraint_id : i \in Positions(cs) } |->
        CHOOSE i \in Positions(cs) :
            /\ cs[i].constraint_id = cid
            /\ \A j \in Positions(cs) : cs[j].constraint_id = cid => j <= i ]

\* constraints_to_check, as positions
ConstraintsToCheck(cs, ids) ==
    IF ids # {}
    THEN { ConstraintMap(cs)[cid] : cid \in ids \cap DOMAIN ConstraintMap(cs) }
    ELSE Positions(cs)

\* a variant of the stats update that counts a trigger for every rule of
\* the list whenever some rule matched
UpdateStats_EveryRule(cs, matched, now) ==
    [ i \in Positions(cs) |->
        IF matched # {}
        THEN [cs[i] EXCEPT !.triggered_count = @ + 1, !.last_triggered = now]
        ELSE cs[i] ]

\* the stats update of the matched rules
UpdateStats(cs, matched, now) ==
    [ i \in Positions(cs) |->
        IF i \in matched
        THEN [cs[i] EXCEPT !.triggered_count = @ + 1, !.last_triggered = now]
        ELSE cs[i] ]

(***************************************************************************)
(* ConstraintManager: operations.                                          *)
(***************************************************************************)

\* the rule add_constraint builds; the keys a version-1 rule lacks carry the
\* defaults the readers use (.get("version", 1), .get("trigger_patterns", []),
\* .get("context_filters", {}))
NewConstraint(cid, in) ==
    [ constraint_id |-> cid,
      version |-> 1,
      trigger_keywords |-> NormalizeKeywords(in.keywords),
      trigger_patterns |-> <<>>,
      trigger_logic |-> "OR",
      context_filters |-> {},
      enforcement_action |-> in.action,
      enabled |-> TRUE,
      triggered_count |-> 0,
      last_triggered |-> NoTimestamp ]

\* the validation of trigger_logic in add_constraint_v2
ValidateLogic(logic) == IF logic \notin {"OR", "AND", "NOT"} THEN "OR" ELSE logic

\* the rule add_constraint_v2 builds
NewConstraintV2(cid, in) ==
    [ constraint_id |-> cid,
      version |-> 2,
      trigger_keywords |-> NormalizeKeywords(in.keywords),
      trigger_patterns |-> in.patterns,
      trigger_logic |-> ValidateLogic(in.logic),
      context_filters |-> in.filters,
      enforcement_action |-> in.action,
      enabled |-> TRUE,
      triggered_count |-> 0,
      last_triggered |-> NoTimestamp ]

\* what a call that is no matching call leaves in the observation variables
Observe(op, arg, ret) ==
    /\ call' = [op |-> op, query |-> <<>>, context |-> {}, ret |-> ret,
                arg |-> arg]
    /\ candidate_ids' = {}
    /\ checked' = {}
    /\ triggered' = {}

\* add_constraint
add_constraint ==
    /\ uuids < MaxRules
    /\ \E in \in LegacyInputs, outcome \in SaveOutcomes :
          LET cs == Append(constraints, NewConstraint(Ids[uuids + 1], in))
          IN  /\ constraints' = cs
              /\ save_constraints(cs, outcome)
    /\ uuids' = uuids + 1
    /\ Observe("add_constraint", <<>>, TRUE)
    /\ UNCHANGED <<clock, sup_vars, aux_vars>>

\* add_constraint_v2
AddConstraintV2(inputs, limit) ==
    /\ uuids < limit
    /\ \E in \in inputs, outcome \in SaveOutcomes :
          LET cs == Append(constraints, NewConstraintV2(Ids[uuids + 1], in))
          IN  /\ constraints' = cs
              /\ save_constraints(cs, outcome)
    /\ uuids' = uuids + 1
    /\ Observe("add_constraint_v2", <<>>, TRUE)
    /\ UNCHANGED <<clock, sup_vars, aux_vars>>

add_constraint_v2 == AddConstraintV2(AdvancedInputs, MaxRules)

\* the tail shared by the two matching calls: stats, conditional save
RecordMatches(matched) ==
    LET cs == UpdateStats(constraints, matched, clock + 1)
    IN  /\ constraints' = cs
        /\ clock' = clock + 1
        /\ triggered' = matched
        /\ IF matched # {}
           THEN \E outcome \in SaveOutcomes : save_constraints(cs, outcome)
           ELSE UNCHANGED <<constraints_file, keyword_index, io_errors>>

\* check_constraints
check_constraints ==
    /\ clock < MaxClock
    /\ \E query \in Queries :
          /\ RecordMatches({ i \in Positions(constraints) :
                               MatchesLegacy(query, constraints[i]) })
          /\ call' = [op |-> "check_constraints", query |-> query,
                      context |-> {}, ret |-> TRUE, arg |-> <<>>]
    /\ candidate_ids' = {}
    /\ checked' = Positions(constraints)
    /\ UNCHANGED <<uuids, sup_vars, aux_vars>>

\* check_constraints_v2
check_constraints_v2 ==
    /\ clock < MaxClock
    /\ \E query \in Queries, context \in Contexts :
          LET ids == get_candidate_constraint_ids(keyword_index, query)
              to_check == ConstraintsToCheck(constraints, ids)
          IN  /\ RecordMatches({ i \in to_check :
                                   MatchesAdvanced(query, context, constraints[i]) })
              /\ call' = [op |-> "check_constraints_v2", query |-> query,
                          context |-> context, ret |-> TRUE,
                          arg |-> <<>>]
              /\ candidate_ids' = ids
              /\ checked' = to_check
    /\ UNCHANGED <<uuids, sup_vars, aux_vars>>

\* str.startswith
StartsWith(str, prefix) == HasAt(str, prefix, 1)

\* the minimum length of an id argument
MinIdLength == 4

\* a variant of the lookup that takes the last rule whose id starts with the
\* argument
FindConstraint_LastMatch(cs, arg) ==
    LET hits == { i \in Positions(cs) : StartsWith(cs[i].constraint_id, arg) }
    IN  IF Len(arg) < MinIdLength \/ hits = {} THEN 0
        ELSE CHOOSE i \in hits : \A j \in hits : i >= j

\* the rule remove / disable / enable act on: the first whose id starts
\* with the argument (0 when the argument is too short or nothing matches)
FindConstraint(cs, arg) ==
    LET hits == { i \in Positions(cs) : StartsWith(cs[i].constraint_id, arg) }
    IN  IF Len(arg) < MinIdLength \/ hits = {} THEN 0
        ELSE CHOOSE i \in hits : \A j \in hits : i <= j

\* list.pop(i)
Pop(cs, i) == SubSeq(cs, 1, i - 1) \o SubSeq(cs, i + 1, Len(cs))

\* remove_constraint
remove_constraint ==
    /\ \E arg \in IdArgs :
          LET i == FindConstraint(constraints, arg)
          IN  IF i = 0
              THEN /\ UNCHANGED <<constraints, constraints_file, keyword_index,
                                  io_errors>>
                   /\ Observe("remove_constraint", arg, FALSE)
              ELSE /\ constraints' = Pop(constraints, i)
                   /\ \E outcome \in SaveOutcomes :
                         save_constraints(Pop(constraints, i), outcome)
                   /\ Observe("remove_constraint", arg, TRUE)
    /\ UNCHANGED <<clock, uuids, sup_vars, aux_vars>>

\* disable_constraint (enabled = FALSE) and enable_constraint (enabled = TRUE)
SetEnabled(op, value) ==
    /\ \E arg \in IdArgs :
          LET i == FindConstraint(constraints, arg)
              cs == [constraints EXCEPT ![i].enabled = value]
          IN  IF i = 0
              THEN /\ UNCHANGED <<constraints, constraints_file, keyword_index,
                                  io_errors>>
                   /\ Observe(op, arg, FALSE)
              ELSE /\ constraints' = cs
                   /\ \E outcome \in SaveOutcomes : save_constraints(cs, outcome)
                   /\ Observe(op, arg, TRUE)
    /\ UNCHANGED <<clock, uuids, sup_vars, aux_vars>>

disable_constraint == SetEnabled("disable_constraint", FALSE)

enable_constraint == SetEnabled("enable_constraint", TRUE)

\* ConstraintManager.__init__ over a directory without constraints.json
StoreInit ==
    /\ constraints = <<>>
    /\ keyword_index = rebuild_keyword_index(<<>>)
    /\ constraints_file = [exists |-> FALSE, data |-> <<>>]
    /\ clock = 0
    /\ call = [op |-> "init", query |-> <<>>, context |-> {}, ret |-> TRUE, arg |-> <<>>]
    /\ candidate_ids = {}
    /\ checked = {}
    /\ triggered = {}
    /\ uuids = 0
    /\ io_errors = 0

StoreNext ==
    \/ add_constraint
    \/ add_constraint_v2
    \/ check_constraints
    \/ check_constraints_v2
    \/ remove_constraint
    \/ disable_constraint
    \/ enable_constraint

(***************************************************************************)
(* ConstraintSupervisor.  Python floats are exact rationals [num, den]     *)
(* here; every value compared against a threshold is a quotient of small   *)
(* integers, far from the rounding error of a double.                      *)
(***************************************************************************)

RECURSIVE Gcd(_, _)
Gcd(a, b) == IF b = 0 THEN a ELSE Gcd(b, a % b)

\* the rational n/d (d > 0) in lowest terms
Rat(n, d) ==
    LET g == Gcd(IF n < 0 THEN -n ELSE n, d)
    IN  [num |-> n \div g, den |-> d \div g]

RatLess(a, b) == a.num * b.den < b.num * a.den
RatLeq(a, b) == a.num * b.den <= b.num * a.den
RatSub(a, b) == Rat(a.num * b.den - b.num * a.den, a.den * b.den)
RatAdd(a, b) == Rat(a.num * b.den + b.num * a.den, a.den * b.den)
RatMul(a, b) == Rat(a.num * b.num, a.den * b.den)
RatMax(a, b) == IF RatLess(a, b) THEN b ELSE a
RatMin(a, b) == IF RatLess(b, a) THEN b ELSE a
Zero == Rat(0, 1)
One == Rat(1, 1)

\* window_size: int = 10
WindowSize == 10

\* the history keeps the last 50 triggers
HistoryCap == 50

\* query[:100]
ExcerptLength == 100

Feedbacks == {"true_positive", "false_positive", "unknown"}

\* the ids record_trigger is called with
SupIds == {Ids[1], Ids[2]}

\* number of record_trigger calls explored
MaxTriggers == 6

\* number of record_trigger calls of the ten-trigger scenario
ScenarioTriggers == 10

\* the number of entries of a trigger list with result "true_positive"
RECURSIVE CountTruePositives(_)
CountTruePositives(h) ==
    IF h = <<>> THEN 0
    ELSE (IF Head(h).result = "true_positive" THEN 1 ELSE 0)
         + CountTruePositives(Tail(h))

\* _calculate_precision
calculate_precision(trigger_list) ==
    IF trigger_list = <<>> THEN Zero
    ELSE Rat(CountTruePositives(trigger_list), Len(trigger_list))

\* sum((x - mean) ** 2 for x in numeric_values), as a multiple of 1/n^2,
\* for mean = ones/n
RECURSIVE SumSquares(_, _, _)
SumSquares(values, ones, n) ==
    IF values = <<>> THEN 0
    ELSE LET x == IF Head(values) THEN 1 ELSE 0
         IN  (n * x - ones) * (n * x - ones) + SumSquares(Tail(values), ones, n)

\* _calculate_variance, of a list of booleans
calculate_variance(values) ==
    IF values = <<>> THEN Zero
    ELSE LET n == Len(values)
             ones == Cardinality({ i \in 1..n : values[i] })
         IN  Rat(SumSquares(values, ones, n), n * n * n)

\* the position a slice bound k stands for in a list of length len: a
\* negative bound counts from the end, and bounds are clipped to the list
PyIndex(len, k) ==
    IF k < 0 THEN (IF len + k < 0 THEN 0 ELSE len + k)
    ELSE (IF k > len THEN len ELSE k)

\* h[start:stop]
PySlice(h, start, stop) ==
    SubSeq(h, PyIndex(Len(h), start) + 1, PyIndex(Len(h), stop))

\* h[-n:]; -0 is 0, so h[-0:] is the whole list
LastEntries(h, n) == PySlice(h, -n, Len(h))

\* a variant of detect_drift that weighs the precision decline with 0.8
detect_drift_DeclineWeight8(recs, constraint_id, window_size) ==
    IF constraint_id \notin DOMAIN recs THEN Zero
    ELSE LET trigger_history == recs[constraint_id].trigger_history
             len == Len(trigger_history)
         IN  IF len < window_size THEN Zero
             ELSE LET recent == LastEntries(trigger_history, window_size)
                      older == IF len >= 2 * window_size
                               THEN PySlice(trigger_history,
                                            -2 * window_size, -window_size)
                               ELSE <<>>
                      recent_precision == calculate_precision(recent)
                      older_precision == IF older # <<>>
                                         THEN calculate_precision(older)
                                         ELSE recent_precision
                      precision_decline ==
                          RatMax(Zero, RatSub(older_precision, recent_precision))
                      variance == calculate_variance(
                          [ i \in 1..Len(recent) |->
                              recent[i].result = "true_positive" ])
                      drift_score == RatAdd(RatMul(precision_decline, Rat(8, 10)),
                                            RatMul(variance, Rat(3, 10)))
                  IN  RatMin(drift_score, One)

\* detect_drift, of the record table recs
detect_drift(recs, constraint_id, window_size) ==
    IF constraint_id \notin DOMAIN recs THEN Zero
    ELSE LET trigger_history == recs[constraint_id].trigger_history
             len == Len(trigger_history)
         IN  IF len < window_size THEN Zero
             ELSE LET recent == LastEntries(trigger_history, window_size)
                      older == IF len >= 2 * window_size
                               THEN PySlice(trigger_history,
                                            -2 * window_size, -window_size)
                               ELSE <<>>
                      recent_precision == calculate_precision(recent)
                      older_precision == IF older # <<>>
                                         THEN calculate_precision(older)
                                         ELSE recent_precision
                      precision_decline ==
                          RatMax(Zero, RatSub(older_precision, recent_precision))
                      variance == calculate_variance(
                          [ i \in 1..Len(recent) |->
                              recent[i].result = "true_positive" ])
                      drift_score == RatAdd(RatMul(precision_decline, Rat(7, 10)),
                                            RatMul(variance, Rat(3, 10)))
                  IN  RatMin(drift_score, One)

\* a variant of _recalculate_metrics that divides by total_triggers, so that
\* unknown outcomes lower the precision
recalculate_metrics_OverAllTriggers(recs, constraint_id) ==
    LET a == recs[constraint_id]
        total == a.true_positives + a.false_positives
        precision == IF a.total_triggers > 0
                     THEN Rat(a.true_positives, a.total_triggers) ELSE Zero
        trigger_rate == RatMin(Rat(total, 100), One)
    IN  [recs EXCEPT ![constraint_id] =
            [a EXCEPT !.precision = precision,
                      !.effectiveness_score = RatMul(precision, trigger_rate),
                      !.drift_score = detect_drift(recs, constraint_id, WindowSize)]]

\* _recalculate_metrics, of the record table recs
recalculate_metrics(recs, constraint_id) ==
    LET a == recs[constraint_id]
        total == a.true_positives + a.false_positives
        precision == IF total > 0 THEN Rat(a.true_positives, total) ELSE Zero
        trigger_rate == RatMin(Rat(total, 100), One)
    IN  [recs EXCEPT ![constraint_id] =
            [a EXCEPT !.precision = precision,
                      !.effectiveness_score = RatMul(precision, trigger_rate),
                      !.drift_score = detect_drift(recs, constraint_id, WindowSize)]]

\* the record record_trigger creates on first use
NewAnalytics ==
    [ total_triggers |-> 0, false_positives |-> 0, true_positives |-> 0,
      unknown |-> 0, precision |-> Zero, effectiveness_score |-> Zero,
      drift_score |-> Zero, trigger_history |-> <<>> ]

\* the counter update of record_trigger
CountFeedback(a, user_feedback) ==
    [a EXCEPT !.total_triggers = @ + 1,
              !.true_positives = IF user_feedback = "true_positive" THEN @ + 1 ELSE @,
              !.false_positives = IF user_feedback = "false_positive" THEN @ + 1 ELSE @,
              !.unknown = IF user_feedback \notin {"true_positive", "false_positive"}
                          THEN @ + 1 ELSE @]

\* a variant of the history update that stores the whole query
AppendHistory_WholeQuery(a, query, user_feedback) ==
    LET h == Append(a.trigger_history,
                    [query |-> query, result |-> user_feedback])
    IN  [a EXCEPT !.trigger_history =
            IF Len(h) > HistoryCap THEN LastEntries(h, HistoryCap) ELSE h]

\* the history update of record_trigger
AppendHistory(a, query, user_feedback) ==
    LET h == Append(a.trigger_history,
                    [query |-> SubSeq(query, 1, IF Len(query) < ExcerptLength
                                                THEN Len(query) ELSE ExcerptLength),
                     result |-> user_feedback])
    IN  [a EXCEPT !.trigger_history =
            IF Len(h) > HistoryCap THEN LastEntries(h, HistoryCap) ELSE h]

\* the in-memory effect of record_trigger
RecordedAnalytics(recs, constraint_id, query, user_feedback) ==
    LET before == IF constraint_id \in DOMAIN recs THEN recs[constraint_id]
                  ELSE NewAnalytics
        after == AppendHistory(CountFeedback(before, user_feedback),
                               query, user_feedback)
        table == [ cid \in DOMAIN recs \cup {constraint_id} |->
                     IF cid = constraint_id THEN after ELSE recs[cid] ]
    IN  recalculate_metrics(table, constraint_id)

\* the record_trigger calls made so far
TriggersRecorded ==
    LET RECURSIVE Sum(_)
        Sum(S) == IF S = {} THEN 0
                  ELSE LET c == CHOOSE c \in S : TRUE
                       IN  analytics[c].total_triggers + Sum(S \ {c})
    IN  Sum(DOMAIN analytics)

\* _save_analytics, of the new in-memory table recs
save_analytics(recs, outcome) ==
    /\ outcome # "ok" => io_errors < MaxIoErrors
    /\ io_errors' = IF outcome = "ok" THEN io_errors ELSE io_errors + 1
    /\ analytics_file' =
           IF outcome = "write_failed" THEN analytics_file
           ELSE [exists |-> TRUE, data |-> recs]

\* no suggest_improvements has returned since the last change
NoSuggestions == [constraint_id |-> <<>>, types |-> <<>>, confidence |-> <<>>]

\* no get_dashboard_data has returned since the last change
NoDashboard ==
    [status |-> "none", healthy |-> {}, needs_review |-> {}, unhealthy |-> {},
     total_constraints |-> 0]

\* no analyze_constraint_health has returned since the last change
NoHealth ==
    [status |-> "none", constraint_id |-> <<>>, precision |-> Zero,
     fp_rate |-> Zero, recommendations |-> {}]

\* no direct detect_drift call has returned since the last change
NoDrift == [constraint_id |-> <<>>, window_size |-> 0, score |-> Zero, called |-> FALSE]

\* record_trigger(constraint_id, query, user_feedback), called at most limit
\* times
RecordTriggerWith(constraint_id, query, user_feedback, limit) ==
    /\ TriggersRecorded < limit
    /\ \E outcome \in SaveOutcomes :
          LET recs == RecordedAnalytics(analytics, constraint_id, query,
                                        user_feedback)
          IN  /\ analytics' = recs
              /\ save_analytics(recs, outcome)
    /\ health' = NoHealth
    /\ drift' = NoDrift
    /\ suggestions' = NoSuggestions
    /\ dashboard' = NoDashboard
    /\ UNCHANGED <<constraints, keyword_index, constraints_file, clock, call,
                   candidate_ids, checked, triggered, uuids, fs_vars, load_vars,
                   sup_manager>>

\* record_trigger, called with ids, feedbacks and at most limit times
RecordTrigger(ids, feedbacks, limit) ==
    /\ \E constraint_id \in ids, user_feedback \in feedbacks :
          RecordTriggerWith(constraint_id, QCreateMock, user_feedback, limit)
    /\ UNCHANGED call_log

record_trigger == RecordTrigger(SupIds, Feedbacks, MaxTriggers)

\* a variant of the status thresholds with "acceptable" from precision 0.70
HealthStatus_Acceptable70(recs, constraint_id) ==
    IF constraint_id \notin DOMAIN recs THEN "no_data"
    ELSE LET a == recs[constraint_id]
             total == a.true_positives + a.false_positives
             precision == IF total > 0 THEN Rat(a.true_positives, total) ELSE Zero
         IN  IF total = 0 THEN "no_triggers"
             ELSE IF RatLeq(Rat(90, 100), precision) /\ RatLess(a.drift_score, Rat(2, 10))
                  THEN "healthy"
             ELSE IF RatLeq(Rat(70, 100), precision) /\ RatLess(a.drift_score, Rat(5, 10))
                  THEN "acceptable"
             ELSE IF RatLeq(Rat(50, 100), precision) \/ RatLess(a.drift_score, Rat(7, 10))
                  THEN "needs_review"
             ELSE "unhealthy"

\* a variant of the status thresholds in which needs_review asks for both
\* precision >= 0.50 and drift < 0.7
HealthStatus_ReviewNeedsBoth(recs, constraint_id) ==
    IF constraint_id \notin DOMAIN recs THEN "no_data"
    ELSE LET a == recs[constraint_id]
             total == a.true_positives + a.false_positives
             precision == IF total > 0 THEN Rat(a.true_positives, total) ELSE Zero
         IN  IF total = 0 THEN "no_triggers"
             ELSE IF RatLeq(Rat(90, 100), precision) /\ RatLess(a.drift_score, Rat(2, 10))
                  THEN "healthy"
             ELSE IF RatLeq(Rat(75, 100), precision) /\ RatLess(a.drift_score, Rat(5, 10))
                  THEN "acceptable"
             ELSE IF RatLeq(Rat(50, 100), precision) /\ RatLess(a.drift_score, Rat(7, 10))
                  THEN "needs_review"
             ELSE "unhealthy"

\* the status analyze_constraint_health returns
HealthStatus(recs, constraint_id) ==
    IF constraint_id \notin DOMAIN recs THEN "no_data"
    ELSE LET a == recs[constraint_id]
             total == a.true_positives + a.false_positives
             precision == IF total > 0 THEN Rat(a.true_positives, total) ELSE Zero
         IN  IF total = 0 THEN "no_triggers"
             ELSE IF RatLeq(Rat(90, 100), precision) /\ RatLess(a.drift_score, Rat(2, 10))
                  THEN "healthy"
             ELSE IF RatLeq(Rat(75, 100), precision) /\ RatLess(a.drift_score, Rat(5, 10))
                  THEN "acceptable"
             ELSE IF RatLeq(Rat(50, 100), precision) \/ RatLess(a.drift_score, Rat(7, 10))
                  THEN "needs_review"
             ELSE "unhealthy"

\* round(x, 3), for x >= 0: the nearest multiple of 1/1000, a tie to the
\* even one
Round3(x) ==
    LET q == (x.num * 1000) \div x.den
        r == (x.num * 1000) % x.den
        up == 2 * r > x.den \/ (2 * r = x.den /\ q % 2 = 1)
    IN  Rat(IF up THEN q + 1 ELSE q, 1000)

\* the recommendation of _generate_health_recommendations for very high
\* drift
CriticalDrift == "CRITICAL: Very high drift"

\* _generate_health_recommendations
generate_health_recommendations(precision, fp_rate, drift_score) ==
    LET recommendations ==
            (IF RatLess(precision, Rat(70, 100)) THEN {"Low precision"} ELSE {})
            \cup (IF RatLess(Rat(30, 100), fp_rate)
                  THEN {"High false positive rate"} ELSE {})
            \cup (IF RatLess(Rat(50, 100), drift_score)
                  THEN {"High drift detected"} ELSE {})
            \cup (IF RatLess(Rat(70, 100), drift_score)
                  THEN {CriticalDrift} ELSE {})
    IN  IF recommendations = {} THEN {"Constraint is performing well"}
        ELSE recommendations

\* what analyze_constraint_health returns; the two early returns carry a
\* status only
HealthReport(recs, constraint_id) ==
    LET status == HealthStatus(recs, constraint_id)
    IN  IF status \in {"no_data", "no_triggers"}
        THEN [status |-> status, constraint_id |-> constraint_id,
              precision |-> Zero, fp_rate |-> Zero, recommendations |-> {}]
        ELSE LET a == recs[constraint_id]
                 total == a.true_positives + a.false_positives
                 precision == Rat(a.true_positives, total)
                 fp_rate == Rat(a.false_positives, total)
             IN  [status |-> status, constraint_id |-> constraint_id,
                  precision |-> Round3(precision), fp_rate |-> Round3(fp_rate),
                  recommendations |->
                      generate_health_recommendations(precision, fp_rate,
                                                      a.drift_score)]

\* analyze_constraint_health, called with ids
AnalyzeHealth(ids) ==
    /\ \E constraint_id \in ids :
          health' = HealthReport(analytics, constraint_id)
    /\ drift' = NoDrift
    /\ UNCHANGED <<analytics, analytics_file, call_log, store_vars, aux_vars>>

analyze_constraint_health == AnalyzeHealth(SupIds)

\* the window sizes detect_drift is called with
WindowSizes == 0..3

\* detect_drift as a public call, with a window size of the caller's
DetectDrift ==
    /\ \E constraint_id \in SupIds, window_size \in WindowSizes :
          drift' = [constraint_id |-> constraint_id, window_size |-> window_size,
                    score |-> detect_drift(analytics, constraint_id, window_size),
                    called |-> TRUE]
    /\ health' = NoHealth
    /\ UNCHANGED <<analytics, analytics_file, call_log, store_vars, aux_vars>>

\* ConstraintSupervisor.__init__ over a directory without
\* constraint_analytics.json: the default document, saved at once
SupInit ==
    /\ analytics = <<>>
    /\ analytics_file = [exists |-> TRUE, data |-> <<>>]
    /\ health = NoHealth
    /\ drift = NoDrift
    /\ call_log = <<>>

SupNext ==
    \/ record_trigger
    \/ analyze_constraint_health

\* the ten-trigger scenario: one rule, true and false positives only
scenario_record_trigger ==
    RecordTrigger({Ids[1]}, {"true_positive", "false_positive"}, ScenarioTriggers)

scenario_analyze_health == AnalyzeHealth({Ids[1]})

ScenarioNext ==
    \/ scenario_record_trigger
    \/ scenario_analyze_health

\* number of record_trigger calls of the streak scenarios
StreakTriggers == 21

\* how often the feedback changes within a streak scenario
MaxSwitches == 2

\* the number of places where a history's result changes
Switches(h) == Cardinality({ i \in 1..(Len(h) - 1) : h[i].result # h[i + 1].result })

\* feedback that arrives in streaks: record_trigger for one rule, true and
\* false positives, the feedback changing at most MaxSwitches times
streak_record_trigger ==
    /\ RecordTrigger({Ids[1]}, {"true_positive", "false_positive"}, StreakTriggers)
    /\ Switches(analytics'[Ids[1]].trigger_history) <= MaxSwitches

\* analyze_constraint_health for the rule with feedback and one without
streak_analyze_health == AnalyzeHealth({Ids[1], Ids[2]})

StreakNext ==
    \/ streak_record_trigger
    \/ streak_analyze_health

\* number of record_trigger calls before the direct detect_drift calls
DriftTriggers == 6

\* record_trigger for one rule, any feedback
drift_record_trigger == RecordTrigger({Ids[1]}, Feedbacks, DriftTriggers)

DriftNext ==
    \/ drift_record_trigger
    \/ DetectDrift

\* number of record_trigger calls of the history scenario
HistoryTriggers == 52

\* how often the arguments change within the history scenario
HistorySwitches == 1

\* a query of 101 characters
QLong == [ i \in 1..(ExcerptLength + 1) |-> IF i > ExcerptLength THEN "!" ELSE "x" ]

\* the (query, user_feedback) arguments of the history scenario
HistoryCalls ==
    { [query |-> QCreateMock, user_feedback |-> "true_positive"],
      [query |-> QLong, user_feedback |-> "false_positive"],
      [query |-> QLong, user_feedback |-> "unknown"] }

\* the number of places where a call log's arguments change
LogSwitches(log) == Cardinality({ i \in 1..(Len(log) - 1) : log[i] # log[i + 1] })

\* record_trigger for one rule, the arguments changing at most
\* HistorySwitches times
history_record_trigger ==
    \E c \in HistoryCalls :
        /\ LogSwitches(Append(call_log, c)) <= HistorySwitches
        /\ RecordTriggerWith(Ids[1], c.query, c.user_feedback, HistoryTriggers)
        /\ call_log' = Append(call_log, c)

HistoryNext == history_record_trigger

(***************************************************************************)
(* The save and load paths at the level of file operations.                *)
(* _save_constraints and _save_analytics run the same steps on their own   *)
(* target (constraints.json, constraint_analytics.json) and their own      *)
(* temporary path (the target with the suffix .tmp); _load_constraints and *)
(* _load_analytics read the target.  One target is modelled.               *)
(***************************************************************************)

\* how many times the saver runs
MaxSaves == 3

\* the number of chunks json.dump hands to the file for one document
DumpChunks == 2

\* the number of processes that load the target
NumLoaders == 2

Loaders == 1..NumLoaders

\* fs_dir maps a path to NoInode when the path does not exist
NoInode == 0

\* the path the saver opens for writing: the target with the suffix .tmp
\* a variant that opens the target itself
WritePath_Target == "target"

WritePath == "tmp"

\* the document of the v-th snapshot as json.dump writes it; snapshot 0 is
\* the state before the first save: no file, which loads as the empty state
Document(v) ==
    IF v = 0 THEN <<>> ELSE [ k \in 1..DumpChunks |-> <<v, k>> ]

\* no file in the directory, nobody saving or loading
FsInit ==
    /\ fs_inodes = <<>>
    /\ fs_dir = [target |-> NoInode, tmp |-> NoInode]
    /\ saver = [pc |-> "idle", version |-> 0, saved |-> 0]
    /\ loaders = [ r \in Loaders |->
                     [pc |-> "idle", inode |-> NoInode, buf |-> <<>>,
                      snapshot |-> 0] ]

\* open(temp_file, 'w'): creates the file, or truncates the one a failed
\* save left behind
save_open ==
    /\ saver.pc = "idle"
    /\ saver.version < MaxSaves
    /\ saver' = [saver EXCEPT !.pc = "dumping", !.version = @ + 1]
    /\ IF fs_dir[WritePath] = NoInode
       THEN /\ fs_inodes' = Append(fs_inodes, <<>>)
            /\ fs_dir' = [fs_dir EXCEPT ![WritePath] = Len(fs_inodes) + 1]
       ELSE /\ fs_inodes' = [fs_inodes EXCEPT ![fs_dir[WritePath]] = <<>>]
            /\ UNCHANGED fs_dir
    /\ UNCHANGED <<loaders, store_vars, sup_vars, load_vars,
                   advice_vars, writers>>

\* json.dump: the next chunk of the document reaches the file
save_write ==
    /\ saver.pc = "dumping"
    /\ LET i == fs_dir[WritePath]
           k == Len(fs_inodes[i]) + 1
       IN  /\ k <= DumpChunks
           /\ fs_inodes' = [fs_inodes EXCEPT
                              ![i] = Append(@, Document(saver.version)[k])]
    /\ UNCHANGED <<fs_dir, saver, loaders, store_vars, sup_vars, load_vars,
                   advice_vars, writers>>

\* the end of the with block: the whole document is written and closed
save_close ==
    /\ saver.pc = "dumping"
    /\ Len(fs_inodes[fs_dir[WritePath]]) = DumpChunks
    /\ saver' = [saver EXCEPT !.pc = "closed"]
    /\ UNCHANGED <<fs_inodes, fs_dir, loaders, store_vars, sup_vars, load_vars,
                   advice_vars, writers>>

\* temp_file.replace(target): the target path now names the written file
save_replace ==
    /\ saver.pc = "closed"
    /\ fs_dir' = [fs_dir EXCEPT ![WritePath] = NoInode,
                                !["target"] = fs_dir[WritePath]]
    /\ saver' = [saver EXCEPT !.pc = "replaced", !.saved = saver.version]
    /\ UNCHANGED <<fs_inodes, loaders, store_vars, sup_vars, load_vars,
                   advice_vars, writers>>

\* target.chmod(0o600), whether it succeeds or raises: the save returns
save_chmod ==
    /\ saver.pc = "replaced"
    /\ saver' = [saver EXCEPT !.pc = "idle"]
    /\ UNCHANGED <<fs_inodes, fs_dir, loaders, store_vars, sup_vars, load_vars,
                   advice_vars, writers>>

\* IOError or OSError while writing or renaming: the save returns False
\* and leaves the temporary file as it is
save_fail ==
    /\ saver.pc \in {"dumping", "closed"}
    /\ saver' = [saver EXCEPT !.pc = "idle"]
    /\ UNCHANGED <<fs_inodes, fs_dir, loaders, store_vars, sup_vars, load_vars,
                   advice_vars, writers>>

\* target.exists(): a missing target loads as the empty state
load_exists(r) ==
    /\ loaders[r].pc = "idle"
    /\ loaders' = [loaders EXCEPT ![r] =
                     IF fs_dir["target"] = NoInode
                     THEN [pc |-> "done", inode |-> NoInode, buf |-> <<>>,
                           snapshot |-> saver.saved]
                     ELSE [@ EXCEPT !.pc = "checked"]]
    /\ UNCHANGED <<fs_inodes, fs_dir, saver, store_vars, sup_vars, load_vars,
                   advice_vars, writers>>

\* open(target, 'r'): the loader holds the file the path names now
load_open(r) ==
    /\ loaders[r].pc = "checked"
    /\ loaders' = [loaders EXCEPT ![r] =
                     [pc |-> "reading", inode |-> fs_dir["target"],
                      buf |-> <<>>, snapshot |-> saver.saved]]
    /\ UNCHANGED <<fs_inodes, fs_dir, saver, store_vars, sup_vars, load_vars,
                   advice_vars, writers>>

\* json.load reads the file it holds up to the end of file
load_read(r) ==
    /\ loaders[r].pc = "reading"
    /\ LET content == fs_inodes[loaders[r].inode]
           k == Len(loaders[r].buf) + 1
       IN  loaders' = [loaders EXCEPT ![r] =
                         IF k <= Len(content)
                         THEN [@ EXCEPT !.buf = Append(@, content[k])]
                         ELSE [@ EXCEPT !.pc = "done"]]
    /\ UNCHANGED <<fs_inodes, fs_dir, saver, store_vars, sup_vars, load_vars,
                   advice_vars, writers>>

\* the loader returns; the process may load again
load_return(r) ==
    /\ loaders[r].pc = "done"
    /\ loaders' = [loaders EXCEPT ![r] =
                     [pc |-> "idle", inode |-> NoInode, buf |-> <<>>,
                      snapshot |-> 0]]
    /\ UNCHANGED <<fs_inodes, fs_dir, saver, store_vars, sup_vars, load_vars,
                   advice_vars, writers>>

\* the two processes that save at the same time
Writers == {1, 2}

\* the number of chunks of a process's document: the two processes hold
\* different rule lists, and their documents differ in length
WriterChunks(p) == p + 1

\* the document process p serializes
WriterDocument(p) == [ k \in 1..WriterChunks(p) |-> <<"w", p, k>> ]

\* the bytes a write beyond the end of the file leaves in between
Hole == <<"w", 0, 0>>

\* the file content after a write of chunk at position k
WriteAt(content, k, chunk) ==
    [ i \in 1..(IF k > Len(content) THEN k ELSE Len(content)) |->
        IF i = k THEN chunk
        ELSE IF i <= Len(content) THEN content[i] ELSE Hole ]

RaceInit ==
    writers = [ p \in Writers |->
                  [pc |-> "idle", inode |-> NoInode, offset |-> 0,
                   failed |-> FALSE] ]

\* open(temp_file, 'w') of process p: creates the file or truncates the
\* one the path names, and holds it open at offset 0
race_open(p) ==
    /\ writers[p].pc = "idle"
    /\ IF fs_dir[WritePath] = NoInode
       THEN /\ fs_inodes' = Append(fs_inodes, <<>>)
            /\ fs_dir' = [fs_dir EXCEPT ![WritePath] = Len(fs_inodes) + 1]
       ELSE /\ fs_inodes' = [fs_inodes EXCEPT ![fs_dir[WritePath]] = <<>>]
            /\ UNCHANGED fs_dir
    /\ writers' = [writers EXCEPT ![p] =
                     [pc |-> "dumping", inode |-> fs_dir'[WritePath],
                      offset |-> 0, failed |-> FALSE]]
    /\ UNCHANGED <<saver, loaders, store_vars, sup_vars, load_vars,
                   advice_vars>>

\* json.dump of process p: its next chunk goes to the file it holds open,
\* at its own offset
race_write(p) ==
    /\ writers[p].pc = "dumping"
    /\ writers[p].offset < WriterChunks(p)
    /\ LET k == writers[p].offset + 1
       IN  /\ fs_inodes' = [fs_inodes EXCEPT ![writers[p].inode] =
                               WriteAt(@, k, WriterDocument(p)[k])]
           /\ writers' = [writers EXCEPT ![p].offset = k]
    /\ UNCHANGED <<fs_dir, saver, loaders, store_vars, sup_vars, load_vars,
                   advice_vars>>

\* the end of the with block of process p
race_close(p) ==
    /\ writers[p].pc = "dumping"
    /\ writers[p].offset = WriterChunks(p)
    /\ writers' = [writers EXCEPT ![p].pc = "closed"]
    /\ UNCHANGED <<fs_inodes, fs_dir, saver, loaders, store_vars, sup_vars,
                   load_vars, advice_vars>>

\* temp_file.replace(target) of process p; FileNotFoundError, an OSError,
\* when the other process has renamed the temporary file away: the save
\* returns False
race_replace(p) ==
    /\ writers[p].pc = "closed"
    /\ IF fs_dir[WritePath] = NoInode
       THEN /\ writers' = [writers EXCEPT ![p].pc = "done", ![p].failed = TRUE]
            /\ UNCHANGED fs_dir
       ELSE /\ fs_dir' = [fs_dir EXCEPT ![WritePath] = NoInode,
                                        !["target"] = fs_dir[WritePath]]
            /\ writers' = [writers EXCEPT ![p].pc = "replaced"]
    /\ UNCHANGED <<fs_inodes, saver, loaders, store_vars, sup_vars, load_vars,
                   advice_vars>>

\* target.chmod(0o600) of process p, whether it succeeds or raises: the
\* save returns
race_chmod(p) ==
    /\ writers[p].pc = "replaced"
    /\ writers' = [writers EXCEPT ![p].pc = "done"]
    /\ UNCHANGED <<fs_inodes, fs_dir, saver, loaders, store_vars, sup_vars,
                   load_vars, advice_vars>>

RaceNext ==
    \E p \in Writers :
        race_open(p) \/ race_write(p) \/ race_close(p) \/ race_replace(p)
            \/ race_chmod(p)

Load ==
    \E r \in Loaders :
        load_exists(r) \/ load_open(r) \/ load_read(r) \/ load_return(r)

FsNext ==
    \/ save_open
    \/ save_write
    \/ save_close
    \/ save_replace
    \/ save_chmod
    \/ save_fail
    \/ Load

(***************************************************************************)
(* Construction over a durable file that this program did not write, and   *)
(* the public operations on what was loaded.  A JSON object is modelled    *)
(* with the set of keys it has: v holds a value for every key the readers  *)
(* look at, the reader's default for a key the object lacks.               *)
(***************************************************************************)

\* the longest list of entries in a constraints.json explored
MaxEntries == 2

\* the number of operations explored after the files were left
MaxOps == 2

\* the keys _load_constraints asks for
RequiredKeys == {"constraint_id", "description", "trigger_keywords"}

\* the other keys the operations read or write
StatKeys == {"enabled", "triggered_count", "last_triggered"}

\* the rule the entries of a file describe
LoadedInput == [keywords |-> <<KwMock, KwDemo>>, action |-> "warn"]

\* an entry of the list in constraints.json: a JSON object or not, the keys
\* it has, whether trigger_keywords is a list of strings or a number
Entry(is_dict, keys, kw_list, cid) ==
    [dict |-> is_dict, keys |-> keys, kw_list |-> kw_list,
     v |-> NewConstraint(cid, LoadedInput)]

EntryShapes ==
    { Entry(FALSE, {}, FALSE, Ids[1]),
      Entry(TRUE, RequiredKeys \ {"trigger_keywords"}, FALSE, Ids[1]),
      Entry(TRUE, RequiredKeys, FALSE, Ids[1]),
      Entry(TRUE, RequiredKeys, TRUE, Ids[1]),
      Entry(TRUE, RequiredKeys \cup StatKeys, TRUE, Ids[1]),
      Entry(TRUE, RequiredKeys \cup StatKeys, TRUE, Ids[2]) }

\* the contents constraints.json can have: no file, bytes that are not
\* UTF-8, text that is not JSON, JSON that is not a list, a list
ListFile(items) == [kind |-> "list", items |-> items]

RuleFiles ==
    { [kind |-> k, items |-> <<>>] :
        k \in {"missing", "not_utf8", "not_json", "not_list"} }
    \cup
    { ListFile(items) :
        items \in UNION { [1..n -> EntryShapes] : n \in 0..MaxEntries } }

\* a record of the analytics document, with the keys it has
FullRecordKeys ==
    {"total_triggers", "false_positives", "true_positives", "unknown",
     "precision", "effectiveness_score", "drift_score", "trigger_history"}

\* the analytics document: is "constraints" an object or a list, its
\* records, is there a "global_stats"
DefaultAnalytics ==
    [constraints_dict |-> TRUE, records |-> <<>>, global_stats |-> TRUE]

DocumentShapes ==
    { DefaultAnalytics,
      [constraints_dict |-> FALSE, records |-> <<>>, global_stats |-> TRUE],
      [constraints_dict |-> TRUE, records |-> <<>>, global_stats |-> FALSE],
      [constraints_dict |-> TRUE, global_stats |-> TRUE,
       records |-> [ cid \in {Ids[1]} |->
                       [keys |-> {"true_positives"},
                        v |-> [NewAnalytics EXCEPT !.true_positives = 1]] ]] }

DocFile(doc) == [kind |-> "doc", doc |-> doc]

\* the contents constraint_analytics.json can have: no file, bytes that are
\* not UTF-8, text that is not JSON, JSON that is not an object, an object
\* without "analytics_version" or "constraints", an object with both
AnalyticsFiles ==
    { [kind |-> k, doc |-> DefaultAnalytics] :
        k \in {"missing", "not_utf8", "not_json", "not_dict", "no_keys"} }
    \cup { DocFile(doc) : doc \in DocumentShapes }

LoadInit ==
    /\ disk = [rules |-> [kind |-> "missing", items |-> <<>>],
               analytics |-> [kind |-> "missing", doc |-> DefaultAnalytics]]
    /\ manager = [built |-> "no", constraints |-> <<>>]
    /\ supervisor = [built |-> "no", doc |-> DefaultAnalytics]
    /\ op_result = [op |-> "none", error |-> "none", count |-> 0]

\* somebody else leaves a constraints.json before the program starts
PutRuleFile ==
    /\ manager.built = "no" /\ supervisor.built = "no"
    /\ op_result.count = 0
    /\ \E f \in RuleFiles : disk' = [disk EXCEPT !.rules = f]
    /\ UNCHANGED <<manager, supervisor, op_result, store_vars, sup_vars, fs_vars,
                   advice_vars>>

\* somebody else leaves a constraint_analytics.json
PutAnalyticsFile ==
    /\ manager.built = "no" /\ supervisor.built = "no"
    /\ op_result.count = 0
    /\ \E f \in AnalyticsFiles : disk' = [disk EXCEPT !.analytics = f]
    /\ UNCHANGED <<manager, supervisor, op_result, store_vars, sup_vars, fs_vars,
                   advice_vars>>

\* the entries _load_constraints keeps
ValidEntry(c) == c.dict /\ RequiredKeys \subseteq c.keys

\* _load_constraints: the list it returns, or the exception that leaves it
\* (the except clause names JSONDecodeError, IOError and OSError; the
\* UnicodeDecodeError of the read is none of them)
load_constraints(file) ==
    CASE file.kind = "not_utf8" ->
             [error |-> "UnicodeDecodeError", constraints |-> <<>>]
      [] file.kind = "list" ->
             [error |-> "none", constraints |-> SelectSeq(file.items, ValidEntry)]
      [] OTHER -> [error |-> "none", constraints |-> <<>>]

\* _rebuild_keyword_index iterates trigger_keywords of every rule with an id
RebuildError(cs) ==
    IF \E i \in Positions(cs) : cs[i].v.constraint_id # <<>> /\ ~cs[i].kw_list
    THEN "TypeError" ELSE "none"

\* ConstraintManager.__init__: load, then build the index
ConstructManagerOver(file) ==
    LET loaded == load_constraints(file)
        error == IF loaded.error # "none" THEN loaded.error
                 ELSE RebuildError(loaded.constraints)
    IN  [error |-> error,
         constraints |-> IF error = "none" THEN loaded.constraints ELSE <<>>]

ConstructManager ==
    /\ manager.built = "no"
    /\ LET built == ConstructManagerOver(disk.rules)
       IN  /\ manager' = [built |-> IF built.error = "none" THEN "yes" ELSE "raised",
                          constraints |-> built.constraints]
           /\ op_result' = [op |-> "ConstraintManager", error |-> built.error,
                            count |-> op_result.count]
    /\ UNCHANGED <<disk, supervisor, store_vars, sup_vars, fs_vars,
                   advice_vars>>

\* _load_analytics: the document it returns, or the exception
load_analytics(file) ==
    CASE file.kind = "not_utf8" ->
             [error |-> "UnicodeDecodeError", doc |-> DefaultAnalytics]
      [] file.kind = "doc" -> [error |-> "none", doc |-> file.doc]
      [] OTHER -> [error |-> "none", doc |-> DefaultAnalytics]

\* ConstraintSupervisor.__init__: its own ConstraintManager, the analytics,
\* and a save when there was no analytics file
ConstructSupervisor ==
    /\ supervisor.built = "no"
    /\ LET own == ConstructManagerOver(disk.rules)
           loaded == load_analytics(disk.analytics)
           error == IF own.error # "none" THEN own.error ELSE loaded.error
       IN  /\ supervisor' = [built |-> IF error = "none" THEN "yes" ELSE "raised",
                             doc |-> loaded.doc]
           /\ op_result' = [op |-> "ConstraintSupervisor", error |-> error,
                            count |-> op_result.count]
           /\ disk' = IF error = "none" /\ disk.analytics.kind = "missing"
                      THEN [disk EXCEPT !.analytics = DocFile(loaded.doc)]
                      ELSE disk
    /\ UNCHANGED <<manager, store_vars, sup_vars, fs_vars,
                   advice_vars>>

\* the process ends; the next one constructs again over the same directory
Restart ==
    /\ manager.built # "no" \/ supervisor.built # "no"
    /\ manager' = [built |-> "no", constraints |-> <<>>]
    /\ supervisor' = [built |-> "no", doc |-> DefaultAnalytics]
    /\ op_result' = [op |-> "none", error |-> "none", count |-> op_result.count]
    /\ UNCHANGED <<disk, store_vars, sup_vars, fs_vars,
                   advice_vars>>

\* the values the readers see
Values(cs) == [ i \in Positions(cs) |-> cs[i].v ]

\* an operation of a constructed manager that leaves the list cs, saves it
\* when asked to, and returns or raises error
ManagerDid(op, cs, save, error) ==
    /\ manager' = [manager EXCEPT !.constraints = cs]
    /\ disk' = IF save THEN [disk EXCEPT !.rules = ListFile(cs)] ELSE disk
    /\ op_result' = [op |-> op, error |-> error, count |-> op_result.count + 1]
    /\ UNCHANGED <<supervisor, store_vars, sup_vars, fs_vars,
                   advice_vars>>

ManagerReady == manager.built = "yes" /\ op_result.count < MaxOps

\* check_constraints on the loaded list: constraint["triggered_count"] += 1
\* needs the key; the rules before the first that lacks it are updated
loaded_check_constraints ==
    /\ ManagerReady
    /\ LET cs == manager.constraints
           matched == { i \in Positions(cs) : MatchesLegacy(QCreateMock, cs[i].v) }
           bad == { i \in matched : "triggered_count" \notin cs[i].keys }
           done == { i \in matched : \A j \in bad : i < j }
           after == [ i \in Positions(cs) |->
                        IF i \in done
                        THEN [cs[i] EXCEPT !.keys = @ \cup {"last_triggered"},
                                           !.v.triggered_count = @ + 1,
                                           !.v.last_triggered = 1]
                        ELSE cs[i] ]
       IN  ManagerDid("check_constraints", after, bad = {} /\ matched # {},
                      IF bad = {} THEN "none" ELSE "KeyError")

\* check_constraints_v2 on the loaded list: every key is read with .get
loaded_check_constraints_v2 ==
    /\ ManagerReady
    /\ LET cs == manager.constraints
           ids == get_candidate_constraint_ids(rebuild_keyword_index(Values(cs)),
                                               QCreateMock)
           matched == { i \in ConstraintsToCheck(Values(cs), ids) :
                          MatchesAdvanced(QCreateMock, {}, cs[i].v) }
           after == [ i \in Positions(cs) |->
                        IF i \in matched
                        THEN [cs[i] EXCEPT
                                !.keys = @ \cup {"triggered_count", "last_triggered"},
                                !.v.triggered_count = @ + 1,
                                !.v.last_triggered = 1]
                        ELSE cs[i] ]
       IN  ManagerDid("check_constraints_v2", after, matched # {}, "none")

\* remove_constraint, disable_constraint, enable_constraint on the loaded
\* list
loaded_id_operation ==
    /\ ManagerReady
    /\ \E op \in {"remove_constraint", "disable_constraint", "enable_constraint"},
          arg \in IdArgs :
          LET cs == manager.constraints
              i == FindConstraint(Values(cs), arg)
              after == IF i = 0 THEN cs
                       ELSE IF op = "remove_constraint" THEN Pop(cs, i)
                       ELSE [cs EXCEPT ![i].keys = @ \cup {"enabled"},
                                       ![i].v.enabled = (op = "enable_constraint")]
          IN  ManagerDid(op, after, i # 0, "none")

\* get_stats reads c["constraint_id"] and c["description"] of the most
\* triggered rule
loaded_get_stats ==
    /\ ManagerReady
    /\ LET cs == manager.constraints
           most == { i \in Positions(cs) :
                       /\ cs[i].v.triggered_count > 0
                       /\ \A j \in 1..(i - 1) :
                              cs[j].v.triggered_count < cs[i].v.triggered_count }
       IN  ManagerDid("get_stats", cs, FALSE,
                      IF \A i \in most : {"constraint_id", "description"} \subseteq cs[i].keys
                      THEN "none" ELSE "KeyError")

\* the rule add_constraint_v2 is called with after a load
LoadedInputV2 ==
    [patterns |-> <<>>, keywords |-> <<KwMock>>, logic |-> "OR",
     filters |-> NoFilters, action |-> "block"]

\* the entry add_constraint (version 1) or add_constraint_v2 appends
AddedEntry(cid, version) ==
    IF version = 1
    THEN Entry(TRUE, RequiredKeys \cup StatKeys, TRUE, cid)
    ELSE [dict |-> TRUE, keys |-> RequiredKeys \cup StatKeys \cup {"version"},
          kw_list |-> TRUE, v |-> NewConstraintV2(cid, LoadedInputV2)]

\* add_constraint and add_constraint_v2 on the loaded list: the id is the
\* first 8 characters of whatever uuid4 draws, and nothing compares it with
\* the ids in the list
loaded_add_constraint ==
    /\ ManagerReady
    /\ Len(manager.constraints) <= MaxEntries
    /\ \E k \in 1..MaxEntries, version \in {1, 2} :
          ManagerDid(IF version = 1 THEN "add_constraint" ELSE "add_constraint_v2",
                     Append(manager.constraints, AddedEntry(Ids[k], version)),
                     TRUE, "none")

\* an operation of a constructed supervisor that leaves the document doc
SupervisorDid(op, doc, save, error) ==
    /\ supervisor' = [supervisor EXCEPT !.doc = doc]
    /\ disk' = IF save THEN [disk EXCEPT !.analytics = DocFile(doc)] ELSE disk
    /\ op_result' = [op |-> op, error |-> error, count |-> op_result.count + 1]
    /\ UNCHANGED <<manager, store_vars, sup_vars, fs_vars,
                   advice_vars>>

SupervisorReady == supervisor.built = "yes" /\ op_result.count < MaxOps

\* record_trigger on the loaded document: KeyError, TypeError and
\* AttributeError are caught and the call returns False
loaded_record_trigger ==
    /\ SupervisorReady
    /\ \E user_feedback \in {"true_positive", "false_positive"} :
          LET doc == supervisor.doc
              cid == Ids[1]
              known == cid \in DOMAIN doc.records
              fails == \/ ~doc.constraints_dict
                       \/ known /\ ~(FullRecordKeys \subseteq doc.records[cid].keys)
              recs == [ c \in DOMAIN doc.records |-> doc.records[c].v ]
              after == RecordedAnalytics(recs, cid, QCreateMock, user_feedback)
          IN  IF fails
              THEN SupervisorDid("record_trigger", doc, FALSE, "none")
              ELSE SupervisorDid("record_trigger",
                       [doc EXCEPT !.records =
                           [ c \in DOMAIN after |->
                               [keys |-> FullRecordKeys, v |-> after[c]] ]],
                       TRUE, "none")

\* analyze_constraint_health and detect_drift call
\* self.analytics["constraints"].get outside any handler of AttributeError
loaded_get_record ==
    /\ SupervisorReady
    /\ \E op \in {"analyze_constraint_health", "detect_drift"} :
          SupervisorDid(op, supervisor.doc, FALSE,
                        IF supervisor.doc.constraints_dict THEN "none"
                        ELSE "AttributeError")

\* suggest_improvements catches KeyError, TypeError and AttributeError
loaded_suggest_improvements ==
    /\ SupervisorReady
    /\ SupervisorDid("suggest_improvements", supervisor.doc, FALSE, "none")

\* get_dashboard_data: .keys() of "constraints", then
\* self.analytics["global_stats"]
loaded_get_dashboard_data ==
    /\ SupervisorReady
    /\ SupervisorDid("get_dashboard_data", supervisor.doc, FALSE,
                     IF ~supervisor.doc.constraints_dict THEN "AttributeError"
                     ELSE IF ~supervisor.doc.global_stats THEN "KeyError"
                     ELSE "none")

LoadNext ==
    \/ PutRuleFile
    \/ PutAnalyticsFile
    \/ ConstructManager
    \/ ConstructSupervisor
    \/ Restart
    \/ loaded_check_constraints
    \/ loaded_check_constraints_v2
    \/ loaded_id_operation
    \/ loaded_get_stats
    \/ loaded_add_constraint
    \/ loaded_record_trigger
    \/ loaded_get_record
    \/ loaded_suggest_improvements
    \/ loaded_get_dashboard_data

(***************************************************************************)
(* The reports of the supervisor: suggest_improvements over the rule store *)
(* the supervisor built for itself, and get_dashboard_data.                *)
(***************************************************************************)

\* the arguments of add_constraint_v2 that differ in what
\* suggest_improvements reads: patterns, context filters, action
AdviceInputs ==
    { in \in AdvancedInputs :
        in.patterns # <<>> \/ (in.filters # NoFilters /\ in.logic = "OR") }

\* number of rules added before the suggestions
AdviceRules == 1

\* number of record_trigger calls before the suggestions
AdviceTriggers == 6

\* how often the feedback changes before the suggestions
AdviceSwitches == 1

AdviceInit ==
    /\ sup_manager = <<>>
    /\ suggestions = NoSuggestions
    /\ dashboard = NoDashboard

\* ConstraintSupervisor.__init__ over the directory as it is: a rule store
\* of its own, loaded from constraints.json, and the analytics document
construct_supervisor ==
    /\ sup_manager' = IF constraints_file.exists THEN constraints_file.data
                      ELSE <<>>
    /\ analytics' = IF analytics_file.exists THEN analytics_file.data ELSE <<>>
    /\ analytics_file' = IF analytics_file.exists THEN analytics_file
                         ELSE [exists |-> TRUE, data |-> <<>>]
    /\ health' = NoHealth
    /\ drift' = NoDrift
    /\ suggestions' = NoSuggestions
    /\ dashboard' = NoDashboard
    /\ UNCHANGED <<call_log, store_vars, fs_vars, load_vars>>

\* a variant of the rate suggest_improvements computes: false positives
\* over the outcomes that are known
SuggestFpRate_OverKnown(a) ==
    Rat(a.false_positives,
        IF a.true_positives + a.false_positives > 1
        THEN a.true_positives + a.false_positives ELSE 1)

\* the fp_rate of suggest_improvements: false_positives over
\* max(total_triggers, 1)
SuggestFpRate(a) ==
    Rat(a.false_positives, IF a.total_triggers > 1 THEN a.total_triggers ELSE 1)

\* a variant of the suggestions with add_context_filter from the rate 0.20
SuggestionTypes_Filter20(recs, rules, constraint_id) ==
    LET i == FindConstraint(rules, constraint_id)
    IN  IF constraint_id \notin DOMAIN recs \/ i = 0 THEN <<>>
        ELSE LET a == recs[constraint_id]
                 constraint == rules[i]
                 precision == a.precision
                 fp_rate == SuggestFpRate(a)
                 patterns == constraint.trigger_patterns
             IN  (IF RatLess(Rat(20, 100), fp_rate)
                  THEN SelectSeq([ k \in 1..Len(patterns) |->
                                     IF Contains(patterns[k], <<".", "*">>)
                                     THEN "narrow_pattern" ELSE "" ],
                                 LAMBDA t : t # "")
                  ELSE <<>>)
                 \o (IF RatLess(Rat(20, 100), fp_rate)
                        /\ constraint.context_filters = {}
                     THEN <<"add_context_filter">> ELSE <<>>)
                 \o (IF RatLess(Rat(95, 100), precision)
                        /\ constraint.enforcement_action = "warn"
                     THEN <<"increase_enforcement">> ELSE <<>>)
                 \o (IF RatLess(precision, Rat(50, 100))
                     THEN <<"disable_constraint">> ELSE <<>>)

\* the types of the suggestions suggest_improvements returns, in order,
\* over the records recs and the rules of the supervisor's own store
SuggestionTypes(recs, rules, constraint_id) ==
    LET i == FindConstraint(rules, constraint_id)
    IN  IF constraint_id \notin DOMAIN recs \/ i = 0 THEN <<>>
        ELSE LET a == recs[constraint_id]
                 constraint == rules[i]
                 precision == a.precision
                 fp_rate == SuggestFpRate(a)
                 patterns == constraint.trigger_patterns
             IN  (IF RatLess(Rat(20, 100), fp_rate)
                  THEN SelectSeq([ k \in 1..Len(patterns) |->
                                     IF Contains(patterns[k], <<".", "*">>)
                                     THEN "narrow_pattern" ELSE "" ],
                                 LAMBDA t : t # "")
                  ELSE <<>>)
                 \o (IF RatLess(Rat(15, 100), fp_rate)
                        /\ constraint.context_filters = {}
                     THEN <<"add_context_filter">> ELSE <<>>)
                 \o (IF RatLess(Rat(95, 100), precision)
                        /\ constraint.enforcement_action = "warn"
                     THEN <<"increase_enforcement">> ELSE <<>>)
                 \o (IF RatLess(precision, Rat(50, 100))
                     THEN <<"disable_constraint">> ELSE <<>>)

\* the confidence suggest_improvements gives each type of suggestion
Confidence(type) ==
    CASE type = "narrow_pattern" -> Rat(75, 100)
      [] type = "add_context_filter" -> Rat(65, 100)
      [] type = "increase_enforcement" -> Rat(80, 100)
      [] type = "disable_constraint" -> Rat(90, 100)

\* suggest_improvements
suggest_improvements ==
    /\ \E constraint_id \in SupIds :
          LET types == SuggestionTypes(analytics, sup_manager, constraint_id)
          IN  suggestions' =
                [constraint_id |-> constraint_id,
                 types |-> types,
                 confidence |-> [ k \in 1..Len(types) |-> Confidence(types[k]) ]]
    /\ UNCHANGED <<store_vars, sup_vars, fs_vars, load_vars, sup_manager,
                   dashboard>>

\* the feedback before the suggestions: record_trigger for one rule, the
\* feedback changing at most AdviceSwitches times
advice_record_trigger ==
    /\ RecordTrigger({Ids[1]}, Feedbacks, AdviceTriggers)
    /\ Switches(analytics'[Ids[1]].trigger_history) <= AdviceSwitches

advice_add_constraint_v2 == AddConstraintV2(AdviceInputs, AdviceRules)

AdviceNext ==
    \/ advice_add_constraint_v2
    \/ remove_constraint
    \/ construct_supervisor
    \/ advice_record_trigger
    \/ suggest_improvements

\* the overall status of get_dashboard_data
OverallStatus(unhealthy, needs_review) ==
    IF unhealthy = 0 /\ needs_review <= 2 THEN "healthy"
    ELSE IF unhealthy <= 1 THEN "acceptable"
    ELSE "needs_attention"

\* what get_dashboard_data returns over the records recs
DashboardData(recs) ==
    LET With(statuses) ==
            { id \in DOMAIN recs : HealthReport(recs, id).status \in statuses }
        healthy == With({"healthy", "acceptable"})
        needs_review == With({"needs_review"})
        unhealthy == With({"unhealthy"})
    IN  [status |-> OverallStatus(Cardinality(unhealthy),
                                  Cardinality(needs_review)),
         healthy |-> healthy, needs_review |-> needs_review,
         unhealthy |-> unhealthy,
         total_constraints |-> Cardinality(healthy) + Cardinality(needs_review)
                                 + Cardinality(unhealthy)]

get_dashboard_data ==
    /\ dashboard' = DashboardData(analytics)
    /\ UNCHANGED <<store_vars, sup_vars, fs_vars, load_vars, sup_manager,
                   suggestions>>

\* the ids of the dashboard scenario
DashIds == {Ids[1], Ids[2], Ids[3]}

\* number of record_trigger calls of the dashboard scenario
DashTriggers == 43

\* the feedback that takes a rule from healthy to unhealthy: a false
\* positive, a window of true positives, a window of false positives
Decline ==
    [ i \in 1..(2 * WindowSize + 1) |->
        IF i \in 2..(WindowSize + 1) THEN "true_positive" ELSE "false_positive" ]

\* the feedback of the dashboard scenario: two rules in decline or with a
\* single outcome of any kind, a third with a single outcome
DashFeedback(recs) ==
    \A id \in DOMAIN recs :
        LET h == recs[id].trigger_history
        IN  \/ Len(h) <= 1
            \/ /\ id # Ids[3]
               /\ Len(h) <= Len(Decline)
               /\ \A i \in 1..Len(h) : h[i].result = Decline[i]

dash_record_trigger ==
    /\ RecordTrigger(DashIds, Feedbacks, DashTriggers)
    /\ DashFeedback(analytics')

DashboardNext ==
    \/ dash_record_trigger
    \/ get_dashboard_data

(***************************************************************************)
(* Specifications.                                                         *)
(***************************************************************************)

vars == <<store_vars, sup_vars, aux_vars>>

Init == StoreInit /\ SupInit /\ FsInit /\ LoadInit /\ AdviceInit /\ RaceInit

\* the rule store under every sequence of its operations
Next == StoreNext

Spec == Init /\ [][Next]_vars

\* the supervisor under every sequence of feedback
SupSpec == Init /\ [][SupNext]_vars

\* the supervisor under the feedback of the ten-trigger scenario
ScenarioSpec == Init /\ [][ScenarioNext]_vars

\* the supervisor under feedback that arrives in streaks
StreakSpec == Init /\ [][StreakNext]_vars

\* the supervisor under feedback and direct detect_drift calls
DriftSpec == Init /\ [][DriftNext]_vars

\* the supervisor under more record_trigger calls than the history keeps
HistorySpec == Init /\ [][HistoryNext]_vars

\* one process saving a store while others load it, step by step
FsSpec == Init /\ [][FsNext]_vars

\* construction over every durable file, and the operations after it
LoadSpec == Init /\ [][LoadNext]_vars

\* a rule store and a supervisor in one process: rules added and removed,
\* feedback, suggestions
AdviceSpec == Init /\ [][AdviceNext]_vars

\* two processes saving the same store at the same time, step by step
RaceSpec == Init /\ [][RaceNext]_vars

\* the supervisor's dashboard over three rules with feedback
DashboardSpec == Init /\ [][DashboardNext]_vars

(***************************************************************************)
(* Properties of the rule store (checked under Spec).                      *)
(***************************************************************************)

\* the step is a matching call (only those read the clock)
MatchStep == clock' # clock

AfterLegacy == call.op = "check_constraints"
AfterAdvanced == call.op = "check_constraints_v2"

\* the rule's own advanced evaluation is due: enabled, version 2, filters pass
Evaluable(c) ==
    /\ c.enabled
    /\ c.version = 2
    /\ check_context_filters(call.context, c.context_filters)

\* the outcome of every predicate of a rule on the query of the last call,
\* patterns first, then keywords
Predicates(c) ==
    [ i \in 1..(Len(c.trigger_patterns) + Len(c.trigger_keywords)) |->
        IF i <= Len(c.trigger_patterns)
        THEN RegexPatternTable[call.query][c.trigger_patterns[i]]
        ELSE KeywordInQueryTable[call.query]
                 [c.trigger_keywords[i - Len(c.trigger_patterns)]] ]

\* C1: a matching call (check_constraints or check_constraints_v2) never
\* returns a rule that is disabled when the call is made, and leaves that
\* rule (triggered_count and last_triggered included) as it was.
C1_DisabledNeverMatched ==
    [][ MatchStep =>
          \A i \in Positions(constraints) :
              ~constraints[i].enabled =>
                  /\ i \notin triggered'
                  /\ constraints'[i] = constraints[i] ]_vars

\* C1 witness: a matching call returned a rule while a disabled rule whose
\* keyword occurs in the query stayed out, untouched.
C1_Witness ==
    /\ AfterLegacy \/ AfterAdvanced
    /\ triggered # {}
    /\ \E i \in Positions(constraints) :
          /\ ~constraints[i].enabled
          /\ check_keywords_phase1(call.query, constraints[i])
          /\ i \notin triggered
          /\ constraints[i].triggered_count = 0

\* C2 (as claimed): check_constraints_v2 returns exactly the rules a scan of
\* every rule of the store returns: the enabled rules whose context filters
\* pass and whose own predicate logic is satisfied by the text.
C2_IndexEqualsFullScan ==
    AfterAdvanced =>
        triggered = { i \in Positions(constraints) :
                        MatchesAdvanced(call.query, call.context, constraints[i]) }

\* C3 (as claimed): an enabled version-2 NOT rule with at least one predicate
\* and passing context filters is returned by check_constraints_v2 if and
\* only if none of its predicates is true on the text.
C3_NotRuleReturnedIffNoneTrue ==
    AfterAdvanced =>
        \A i \in Positions(constraints) :
            LET c == constraints[i]
            IN  (Evaluable(c) /\ c.trigger_logic = "NOT" /\ Predicates(c) # <<>>)
                => (i \in triggered <=>
                      \A k \in DOMAIN Predicates(c) : ~Predicates(c)[k])

\* C4: a version-2 rule the advanced evaluator evaluates is matched according
\* to trigger_logic over its pattern outcomes followed by its keyword
\* outcomes: AND needs all true, OR at least one, NOT none, and a rule with
\* no predicate is never matched.
C4_LogicCombination ==
    AfterAdvanced =>
        \A i \in checked :
            LET c == constraints[i]
                bs == Predicates(c)
            IN  Evaluable(c) =>
                  (i \in triggered <=>
                     /\ bs # <<>>
                     /\ c.trigger_logic = "AND" => \A k \in DOMAIN bs : bs[k]
                     /\ c.trigger_logic = "OR" => \E k \in DOMAIN bs : bs[k]
                     /\ c.trigger_logic = "NOT" => \A k \in DOMAIN bs : ~bs[k])

\* C4 witness: an AND rule with predicates [true, true] was returned.
C4_Witness ==
    /\ AfterAdvanced
    /\ \E i \in triggered :
          /\ constraints[i].version = 2
          /\ constraints[i].trigger_logic = "AND"
          /\ Predicates(constraints[i]) = <<TRUE, TRUE>>

\* C5 (as claimed): a version-2 rule with context filters is returned by
\* check_constraints_v2 only if, for every key of its filters, the context
\* holds a value for the key and the value is in the key's allowed set.
C5_EveryFilterKeyEnforced ==
    AfterAdvanced =>
        \A i \in triggered :
            LET c == constraints[i]
            IN  c.version = 2 =>
                  \A key \in DictKeys(c.context_filters) :
                      /\ key \in DictKeys(call.context)
                      /\ DictGet(call.context, key) \in DictGet(c.context_filters, key)

\* C6 (as claimed): check_constraints returns exactly the enabled version-1
\* rules with a keyword occurring in the lower-cased text; no version-2 rule
\* is returned on keyword grounds.
C6_LegacyReturnsVersion1Only ==
    AfterLegacy =>
        triggered = { i \in Positions(constraints) :
                        /\ constraints[i].enabled
                        /\ constraints[i].version = 1
                        /\ \E k \in Range(constraints[i].trigger_keywords) :
                              KeywordInQueryTable[call.query][k] }

\* a rule whose only predicate is one pattern that does not compile
OnlyInvalidPattern(c) ==
    /\ c.trigger_keywords = <<>>
    /\ Len(c.trigger_patterns) = 1
    /\ ~RegexCompiles(c.trigger_patterns[1])

C8_CandidateSelection ==
    [][ MatchStep /\ call'.op = "check_constraints_v2" =>
          /\ candidate_ids' =
                UNION { keyword_index[w] :
                          w \in QueryWords(call'.query) \cap DOMAIN keyword_index }
          /\ call'.query = QCreateMock =>
                \A i \in Positions(constraints) :
                    KwMock \in Range(constraints[i].trigger_keywords)
                    => constraints[i].constraint_id \in candidate_ids'
          /\ candidate_ids' # {} =>
                \A i \in checked' : constraints[i].constraint_id \in candidate_ids'
          /\ candidate_ids' = {} => checked' = Positions(constraints) ]_vars

\* the calls that take an id or id prefix
IdOps == {"remove_constraint", "disable_constraint", "enable_constraint"}

\* prefix is an initial segment of id
IsPrefix(prefix, id) ==
    /\ Len(prefix) <= Len(id)
    /\ \A k \in 1..Len(prefix) : id[k] = prefix[k]

\* C15: remove / enable / disable with an id prefix return true and act on
\* the first stored rule whose id starts with the prefix, and on no other
\* rule; with a prefix of fewer than 4 characters or matching no stored id
\* they return false and leave the rules in memory and on disk unchanged;
\* a removed rule is gone from the list, the other rules stay as they were
\* and in order, and a later matching call returns stored rules only.
C15_PrefixOperations ==
    [][ /\ call'.op \in IdOps =>
              LET hits == { i \in Positions(constraints) :
                              IsPrefix(call'.arg, constraints[i].constraint_id) }
              IN  IF Len(call'.arg) < 4 \/ hits = {}
                  THEN /\ call'.ret = FALSE
                       /\ constraints' = constraints
                       /\ constraints_file' = constraints_file
                  ELSE LET t == CHOOSE i \in hits : \A j \in hits : i <= j
                       IN  /\ call'.ret = TRUE
                           /\ call'.op = "remove_constraint" =>
                                 /\ Len(constraints') = Len(constraints) - 1
                                 /\ \A i \in Positions(constraints') :
                                       constraints'[i] =
                                         constraints[IF i < t THEN i ELSE i + 1]
                           /\ call'.op = "disable_constraint" =>
                                 /\ Len(constraints') = Len(constraints)
                                 /\ \A i \in Positions(constraints) :
                                       constraints'[i] =
                                         IF i = t
                                         THEN [constraints[i] EXCEPT !.enabled = FALSE]
                                         ELSE constraints[i]
                           /\ call'.op = "enable_constraint" =>
                                 /\ Len(constraints') = Len(constraints)
                                 /\ \A i \in Positions(constraints) :
                                       constraints'[i] =
                                         IF i = t
                                         THEN [constraints[i] EXCEPT !.enabled = TRUE]
                                         ELSE constraints[i]
        /\ MatchStep => triggered' \subseteq Positions(constraints)
      ]_vars

\* C15 witness: remove with the prefix "abcd", shared by two stored ids,
\* returned true and removed the first of the two rules.
C15_Witness ==
    /\ call.op = "remove_constraint"
    /\ call.arg = <<"a", "b", "c", "d">>
    /\ call.ret = TRUE
    /\ Len(constraints) = 1
    /\ constraints[1].constraint_id = Ids[2]

(***************************************************************************)
(* Properties of the supervisor.                                           *)
(***************************************************************************)

\* C9: after every record_trigger each record's stored precision is
\* true_positives / (true_positives + false_positives), or 0 when that sum
\* is 0, and a call with feedback unknown leaves the precision as it was.
C9_PrecisionInvariant ==
    [][ \A cid \in DOMAIN analytics' :
          LET a == analytics'[cid]
              total == a.true_positives + a.false_positives
          IN  /\ total > 0 =>
                    a.precision.num * total = a.true_positives * a.precision.den
              /\ total = 0 => a.precision.num = 0
              /\ (cid \in DOMAIN analytics /\ a.unknown > analytics[cid].unknown)
                 => a.precision = analytics[cid].precision ]_vars

\* C9 witness: a record with true positives, false positives and unknowns.
C9_Witness ==
    \E cid \in DOMAIN analytics :
        /\ analytics[cid].true_positives > 0
        /\ analytics[cid].false_positives > 0
        /\ analytics[cid].unknown > 0
        /\ analytics[cid].precision = Rat(analytics[cid].true_positives,
               analytics[cid].true_positives + analytics[cid].false_positives)

\* the history of the ten-trigger scenario: 3 false then 7 true positives
ScenarioResults ==
    [ i \in 1..10 |-> IF i <= 3 THEN "false_positive" ELSE "true_positive" ]

\* the scenario has been recorded for the first rule and analysed
ScenarioAnalysed ==
    /\ Ids[1] \in DOMAIN analytics
    /\ [ i \in DOMAIN analytics[Ids[1]].trigger_history |->
           analytics[Ids[1]].trigger_history[i].result ] = ScenarioResults
    /\ health.constraint_id = Ids[1]

\* C10 (as claimed): after 3 false positives and 7 true positives the
\* precision is 0.7, the drift is below 0.5 and the status is acceptable.
C10_ScenarioAcceptable ==
    ScenarioAnalysed =>
        /\ analytics[Ids[1]].precision = Rat(7, 10)
        /\ RatLess(analytics[Ids[1]].drift_score, Rat(1, 2))
        /\ health.status = "acceptable"

\* C10 (amended): after 3 false positives and 7 true positives the precision
\* is 0.7, the drift is below 0.5 and the status is needs_review, since
\* acceptable requires a precision of at least 0.75.
C10_ScenarioNeedsReview ==
    ScenarioAnalysed =>
        /\ analytics[Ids[1]].precision = Rat(7, 10)
        /\ RatLess(analytics[Ids[1]].drift_score, Rat(1, 2))
        /\ health.status = "needs_review"

\* C10 witness: the scenario was recorded and analysed.
C10_Witness ==
    /\ ScenarioAnalysed
    /\ analytics[Ids[1]].total_triggers = 10
    /\ analytics[Ids[1]].drift_score = Rat(63, 1000)

\* the last analyze_constraint_health was about a rule with a record
AnalysedRecord == health.constraint_id \in DOMAIN analytics

\* C11: for a record with true_positives + false_positives > 0 the status
\* is the first that applies of: healthy (precision >= 0.90 and drift < 0.2),
\* acceptable (precision >= 0.75 and drift < 0.5), needs_review (precision
\* >= 0.50 or drift < 0.7), unhealthy; precision is tp / (tp + fp) and drift
\* is the drift of the history as the last record_trigger left it.
C11_StatusByThresholds ==
    AnalysedRecord =>
        LET a == analytics[health.constraint_id]
            total == a.true_positives + a.false_positives
            p == Rat(a.true_positives, total)
            d == detect_drift(analytics, health.constraint_id, WindowSize)
        IN  total > 0 =>
              health.status =
                IF 10 * p.num >= 9 * p.den /\ 10 * d.num < 2 * d.den THEN "healthy"
                ELSE IF 4 * p.num >= 3 * p.den /\ 2 * d.num < d.den THEN "acceptable"
                ELSE IF 2 * p.num >= p.den \/ 10 * d.num < 7 * d.den THEN "needs_review"
                ELSE "unhealthy"

\* C11 witness: a record whose precision is below 0.50 and whose drift is
\* 0.7 was reported unhealthy.
C11_Witness ==
    /\ AnalysedRecord
    /\ health.status = "unhealthy"
    /\ analytics[health.constraint_id].drift_score = Rat(7, 10)
    /\ RatLess(analytics[health.constraint_id].precision, Rat(1, 2))

\* C12 (as claimed): the status is no_data without a record, no_triggers for
\* a record with total_triggers = 0, and one of healthy, acceptable,
\* needs_review, unhealthy for a record with total_triggers >= 1.
C12_StatusByTotalTriggers ==
    health.status # "none" =>
        IF ~AnalysedRecord THEN health.status = "no_data"
        ELSE IF analytics[health.constraint_id].total_triggers = 0
             THEN health.status = "no_triggers"
             ELSE health.status \in {"healthy", "acceptable", "needs_review",
                                     "unhealthy"}

\* the fraction of true_positive entries of a window (0 for an empty one)
TruePositiveFraction(window) ==
    IF window = <<>> THEN Zero
    ELSE Rat(Cardinality({ i \in DOMAIN window : window[i].result = "true_positive" }),
             Len(window))

\* the drift C13 states for a history h and a window size w
ClaimedDrift(h, w) ==
    IF Len(h) < w THEN Zero
    ELSE LET recent == SubSeq(h, Len(h) - w + 1, Len(h))
             p_recent == TruePositiveFraction(recent)
             p_older == IF Len(h) >= 2 * w
                        THEN TruePositiveFraction(SubSeq(h, Len(h) - 2 * w + 1,
                                                         Len(h) - w))
                        ELSE p_recent
             decline == RatMax(Zero, RatSub(p_older, p_recent))
             variance == RatMul(p_recent, RatSub(One, p_recent))
         IN  RatMin(One, RatAdd(RatMul(Rat(7, 10), decline),
                                 RatMul(Rat(3, 10), variance)))

\* C13 (as claimed): detect_drift returns 0 for a rule without a record or
\* with fewer than window_size history entries, and otherwise
\* min(1, 0.7 * max(0, p_older - p_recent) + 0.3 * variance) over the last
\* window_size entries and the window_size entries before them; the result
\* lies in [0, 1].
C13_DriftFormula ==
    drift.called =>
        /\ drift.score =
              IF drift.constraint_id \notin DOMAIN analytics THEN Zero
              ELSE ClaimedDrift(analytics[drift.constraint_id].trigger_history,
                                drift.window_size)
        /\ RatLeq(Zero, drift.score)
        /\ RatLeq(drift.score, One)

\* the entry C14 states for a call: the first at most 100 characters of the
\* query, and the feedback
ClaimedEntry(c) ==
    [query |-> [ i \in 1..(IF Len(c.query) < 100 THEN Len(c.query) ELSE 100) |->
                   c.query[i] ],
     result |-> c.user_feedback]

\* C14: after n record_trigger calls for a rule its trigger_history holds
\* the min(n, 50) most recent calls in call order, each with the feedback of
\* the call and the first at most 100 characters of its query.
C14_HistoryIsRecentCalls ==
    call_log # <<>> =>
        LET n == Len(call_log)
            h == analytics[Ids[1]].trigger_history
            kept == IF n < 50 THEN n ELSE 50
        IN  /\ Len(h) = kept
            /\ \A i \in 1..kept : h[i] = ClaimedEntry(call_log[n - kept + i])

\* C14 witness: after more than 50 calls the history has 50 entries, the
\* oldest calls are gone and a long query is stored with 100 characters.
C14_Witness ==
    /\ Len(call_log) > 50
    /\ Len(analytics[Ids[1]].trigger_history) = 50
    /\ call_log[1] # call_log[Len(call_log)]
    /\ analytics[Ids[1]].trigger_history[1].result # call_log[1].user_feedback
    /\ \E i \in 1..50 : Len(analytics[Ids[1]].trigger_history[i].query) = 100

(***************************************************************************)
(* Properties of the save and load paths.                                  *)
(***************************************************************************)

\* C16: with one process saving a store (dump to the temporary file, then
\* rename over the target) and other processes loading the target at any
\* interleaving, every load that reaches the end of the file has read a
\* complete document: the one that was the target's snapshot when the file
\* was opened, which is the previous or the new snapshot of any save going
\* on meanwhile; a partly written file is never read.
C16_LoadsSeeCompleteSnapshots ==
    \A r \in Loaders :
        loaders[r].pc = "done" =>
            /\ loaders[r].buf = Document(loaders[r].snapshot)
            /\ loaders[r].snapshot \in 0..saver.saved

\* a load that opened snapshot 1 finishes while the saver is in the middle
\* of dumping snapshot 2, and a save has failed half way before
C16_Witness ==
    \E r \in Loaders :
        /\ loaders[r].pc = "done"
        /\ loaders[r].buf = Document(1)
        /\ saver.pc = "dumping"
        /\ saver.saved = 1
        /\ saver.version = 3
        /\ Len(fs_inodes[fs_dir[WritePath]]) = 1

\* the operation of this step called _save_constraints
Persisted ==
    \/ call'.op \in {"add_constraint", "add_constraint_v2"}
    \/ call'.op \in IdOps /\ call'.ret = TRUE
    \/ call'.op \in {"check_constraints", "check_constraints_v2"} /\ triggered' # {}

\* C17: when the persist of a mutating operation fails, the operation
\* still returns, the in-memory list holds the mutation and the durable file
\* holds what it held before the operation; a persist that succeeds makes
\* the durable file equal to the in-memory list.
C17_FailedPersistKeepsFile ==
    [][ /\ io_errors' > io_errors =>
              /\ Persisted
              /\ constraints_file' = constraints_file
              /\ call'.op \in {"add_constraint", "add_constraint_v2"} =>
                     Len(constraints') = Len(constraints) + 1
              /\ call'.op = "remove_constraint" =>
                     Len(constraints') = Len(constraints) - 1
        /\ Persisted /\ io_errors' = io_errors =>
              constraints_file' = [exists |-> TRUE, data |-> constraints']
      ]_vars

(***************************************************************************)
(* Properties of construction and of the operations after it.              *)
(***************************************************************************)

\* C18: constructing the rule store or the supervisor never raises,
\* whatever the durable files hold, and over a missing file, a file that
\* cannot be parsed or a file whose JSON is not of the expected type it
\* starts from the empty state: no rules, respectively the default
\* analytics document with no records.
C18_LoadingNeverFails ==
    [][ /\ op_result'.op = "ConstraintManager" =>
              /\ op_result'.error = "none"
              /\ disk.rules.kind # "list" => manager'.constraints = <<>>
        /\ op_result'.op = "ConstraintSupervisor" =>
              /\ op_result'.error = "none"
              /\ disk.analytics.kind # "doc" => supervisor'.doc = DefaultAnalytics
      ]_vars

\* the public operations of the two objects
PublicOps ==
    {"add_constraint", "add_constraint_v2", "check_constraints",
     "check_constraints_v2", "remove_constraint", "enable_constraint", "disable_constraint",
     "get_stats", "record_trigger", "detect_drift",
     "analyze_constraint_health", "suggest_improvements", "get_dashboard_data"}

\* C19: after a construction that succeeded over any durable file, every
\* public operation of the rule store and of the supervisor returns; none
\* raises.
C19_OperationsReturn ==
    op_result.op \in PublicOps => op_result.error = "none"

\* the id and the version of every rule of a list, in order
IdsOf(cs) == [ i \in Positions(cs) |-> <<cs[i].v.constraint_id, cs[i].v.version>> ]

\* the ids and versions of the rules stay what they were in this step
IdsKept ==
    /\ op_result'.op \in {"check_constraints", "check_constraints_v2",
                          "enable_constraint", "disable_constraint", "get_stats"} =>
           IdsOf(manager'.constraints) = IdsOf(manager.constraints)
    /\ op_result'.op = "remove_constraint" =>
           \A i \in Positions(manager'.constraints) :
               \E j \in Positions(manager.constraints) :
                   IdsOf(manager'.constraints)[i] = IdsOf(manager.constraints)[j]
    /\ op_result'.op \in {"add_constraint", "add_constraint_v2"} =>
           SubSeq(IdsOf(manager'.constraints), 1, Len(manager.constraints))
               = IdsOf(manager.constraints)
    /\ op_result'.op = "ConstraintManager" /\ op_result'.error = "none" =>
           IdsOf(manager'.constraints)
               = IdsOf(SelectSeq(disk.rules.items, ValidEntry))

\* C20: in every state the rules of the store have pairwise distinct ids
\* (an add assigns an id no stored rule has), and no operation (match,
\* enable, disable, remove of another rule, save and load again) changes
\* the id or the version of a rule.
C20_IdsDistinctAndImmutable ==
    [][ /\ \A i, j \in Positions(manager'.constraints) :
               i # j => manager'.constraints[i].v.constraint_id
                            # manager'.constraints[j].v.constraint_id
        /\ IdsKept
      ]_vars

(***************************************************************************)
(* Further properties of the rule store.                                   *)
(***************************************************************************)

\* C23: after every mutation of the rule store, whether its save succeeded
\* or not, the in-memory keyword index is the index rebuilt from the
\* in-memory rules: every keyword and every extractable pattern literal of
\* every stored rule maps to the rule's id, and nothing else is in it.
C23_IndexIsRebuilt ==
    keyword_index = rebuild_keyword_index(constraints)

\* the ids check_constraints_v2 returns on the list cs with a freshly
\* rebuilt index
AdvancedIds(cs, query, context) ==
    LET ids == get_candidate_constraint_ids(rebuild_keyword_index(cs), query)
    IN  { cs[i].constraint_id :
            i \in { j \in ConstraintsToCheck(cs, ids) :
                      MatchesAdvanced(query, context, cs[j]) } }

\* C24: a disabled rule does not influence matching: whenever
\* check_constraints_v2 runs on a store whose index is up to date, the
\* rules it returns (whose counters it updates) are the rules it would
\* return on the same store with any one disabled rule removed.
C24_DisabledRuleHasNoInfluence ==
    [][ ( /\ MatchStep /\ call'.op = "check_constraints_v2"
          /\ keyword_index = rebuild_keyword_index(constraints) ) =>
            \A d \in Positions(constraints) :
                ~constraints[d].enabled =>
                    { constraints[i].constraint_id : i \in triggered' }
                        = AdvancedIds(Pop(constraints, d), call'.query,
                                      call'.context)
      ]_vars

\* C25: a matching call (legacy or advanced) adds exactly 1 to
\* triggered_count and sets last_triggered to the time of the call for every
\* rule it returns, leaves every other rule and every other field as it
\* was, and saves only when some rule matched: a call that matches nothing
\* leaves the in-memory rules and the durable file unchanged.
C25_MatchFrame ==
    [][ MatchStep =>
          /\ Len(constraints') = Len(constraints)
          /\ \A i \in Positions(constraints) :
                constraints'[i] =
                    IF i \in triggered'
                    THEN [constraints[i] EXCEPT
                            !.triggered_count = constraints[i].triggered_count + 1,
                            !.last_triggered = clock']
                    ELSE constraints[i]
          /\ triggered' = {} =>
                constraints' = constraints /\ constraints_file' = constraints_file
          /\ triggered' # {} /\ io_errors' = io_errors =>
                constraints_file' = [exists |-> TRUE, data |-> constraints']
      ]_vars

\* a matching call has returned one rule of a store of two; the other rule
\* keeps its zero counter and no timestamp
C25_Witness ==
    /\ call.op \in {"check_constraints", "check_constraints_v2"}
    /\ Len(constraints) = 2
    /\ \E i, j \in Positions(constraints) :
          /\ i \in triggered /\ j \notin triggered
          /\ constraints[i].triggered_count = 1
          /\ constraints[i].last_triggered = clock
          /\ constraints[j].triggered_count = 0
          /\ constraints[j].last_triggered = NoTimestamp

\* the rules of version 2 carry a trigger_logic of the documented three
LogicInDomain ==
    \A i \in Positions(constraints) :
        constraints[i].version = 2 =>
            constraints[i].trigger_logic \in {"OR", "AND", "NOT"}

\* C27: in every state reached through add_constraint and
\* add_constraint_v2, every stored rule of version 2 has trigger_logic in
\* {OR, AND, NOT} (another value passed to add_constraint_v2 is stored as
\* OR) and every stored rule has enforcement_action in {warn, block,
\* require_action}.
C27_DomainInvariant ==
    /\ LogicInDomain
    /\ \A i \in Positions(constraints) :
          constraints[i].enforcement_action \in {"warn", "block", "require_action"}


\* the trigger history h has a full older window of true positives only and
\* a recent window without any
OlderAllRecentNone(h) ==
    /\ Len(h) >= 2 * WindowSize
    /\ \A e \in Range(PySlice(h, -2 * WindowSize, -WindowSize)) :
          e.result = "true_positive"
    /\ \A e \in Range(LastEntries(h, WindowSize)) : e.result # "true_positive"

\* C28: the drift score never exceeds 0.7, whatever the window: every
\* stored drift_score lies in [0, 0.7], analyze_constraint_health never
\* gives the recommendation for a drift above 0.70, and it reports
\* unhealthy only for a drift of exactly 0.7 (an older window of true
\* positives only, a recent window without any) and a precision below 0.5.
C28_DriftAtMostSevenTenths ==
    /\ \A id \in DOMAIN analytics :
          /\ RatLeq(Zero, analytics[id].drift_score)
          /\ RatLeq(analytics[id].drift_score, Rat(7, 10))
          /\ \A w \in 0..WindowSize :
                RatLeq(detect_drift(analytics, id, w), Rat(7, 10))
    /\ CriticalDrift \notin health.recommendations
    /\ health.status = "unhealthy" =>
          LET a == analytics[health.constraint_id]
          IN  /\ a.drift_score = Rat(7, 10)
              /\ RatLess(a.precision, Rat(1, 2))
              /\ OlderAllRecentNone(a.trigger_history)

\* analyze_constraint_health has reported unhealthy, with the
\* recommendations for low precision and high drift
C28_Witness ==
    /\ AnalysedRecord
    /\ health.status = "unhealthy"
    /\ health.recommendations =
          {"Low precision", "High false positive rate", "High drift detected"}
    /\ OlderAllRecentNone(analytics[health.constraint_id].trigger_history)


(***************************************************************************)
(* Properties of the supervisor's reports.                                 *)
(***************************************************************************)

\* suggest_improvements has returned for a rule the supervisor's store
\* holds and that has a record
Suggested ==
    /\ suggestions # NoSuggestions
    /\ suggestions.constraint_id \in DOMAIN analytics
    /\ FindConstraint(sup_manager, suggestions.constraint_id) # 0

\* how often the type t is among the suggestions returned
TimesSuggested(t) ==
    Cardinality({ k \in DOMAIN suggestions.types : suggestions.types[k] = t })

C29_SameRates ==
    Suggested =>
        LET a == analytics[suggestions.constraint_id]
            known == a.true_positives + a.false_positives
        IN  known > 0 =>
              /\ SuggestFpRate(a) = Rat(a.false_positives, known)
              /\ a.precision = Rat(a.true_positives, known)

\* C30 (as claimed): suggest_improvements of a supervisor that is already
\* constructed is computed from the rule as the rule store of the same
\* process holds it now, once the store is persisted: suggestions for a
\* rule added after the construction, none for a rule removed since.
C30_CurrentRuleShape ==
    [][ ( /\ suggestions' # suggestions
          /\ suggestions' # NoSuggestions
          /\ constraints_file = [exists |-> TRUE, data |-> constraints] ) =>
            suggestions'.types =
                SuggestionTypes(analytics, constraints,
                                suggestions'.constraint_id)
      ]_vars


\* the dashboard's overall status is the one claimed for its buckets
OverallAsClaimed ==
    dashboard.status =
        IF dashboard.unhealthy = {} /\ Cardinality(dashboard.needs_review) <= 2
        THEN "healthy"
        ELSE IF Cardinality(dashboard.unhealthy) <= 1 THEN "acceptable"
        ELSE "needs_attention"

\* every rule the dashboard lists is in the bucket of its health status
BucketsByStatus ==
    /\ \A id \in dashboard.healthy :
          HealthStatus(analytics, id) \in {"healthy", "acceptable"}
    /\ \A id \in dashboard.needs_review :
          HealthStatus(analytics, id) = "needs_review"
    /\ \A id \in dashboard.unhealthy : HealthStatus(analytics, id) = "unhealthy"
    /\ dashboard.healthy \cap dashboard.needs_review = {}
    /\ dashboard.healthy \cap dashboard.unhealthy = {}
    /\ dashboard.needs_review \cap dashboard.unhealthy = {}

\* C22 (as claimed): get_dashboard_data places every rule that has a record
\* in exactly one of the buckets healthy, needs_review, unhealthy, by the
\* status of analyze_constraint_health, and its overall status is healthy
\* for no unhealthy rule and at most 2 in need of review, acceptable for at
\* most one unhealthy rule, needs_attention otherwise.
C22_DashboardBuckets ==
    dashboard # NoDashboard =>
        /\ BucketsByStatus
        /\ OverallAsClaimed
        /\ DOMAIN analytics =
              dashboard.healthy \cup dashboard.needs_review \cup dashboard.unhealthy


\* both processes have returned from their save
BothSaved == \A p \in Writers : writers[p].pc = "done"

\* C26 (as claimed): two processes that persist at the same time without
\* locking end, under every interleaving of their file steps, with the
\* complete document of one of them as the durable file: never a partly
\* written file, never a mixture of the two documents.
C26_LastWriterWins ==
    BothSaved =>
        /\ fs_dir["target"] # NoInode
        /\ \E p \in Writers : fs_inodes[fs_dir["target"]] = WriterDocument(p)

====
